---- MODULE Spec2Model ----
(***************************************************************************)
(* Model of the .hbk archive parser (src/src/parsers/hbk_parser.py):       *)
(* HBKParser.parse_file and the functions it calls, and direct calls of    *)
(* extract_file_content.  One parser instance parses the archive at a      *)
(* path, possibly several times in a row; the archive may be replaced      *)
(* between two calls.                                                      *)
(*                                                                         *)
(* A path is a sequence of tokens: directory segments, the separators "/"  *)
(* and "\", a file stem and an extension (".html", ".st").  A substring    *)
(* test of the code on a path is a contiguous-subsequence test on tokens.  *)
(***************************************************************************)
EXTENDS Integers, Sequences, FiniteSets, TLC

VARIABLES
    archive,              \* the archive on disk: its members, in listing order
    file,                 \* extension and size of the file given to parse_file
    max_files_per_type,   \* HBKParser.max_files_per_type (NoneInt = None)
    max_total_files,      \* HBKParser.max_total_files    (NoneInt = None)
    zip_command,          \* HBKParser._zip_command
    archive_path,         \* HBKParser._archive_path
    pc,                   \* position of the running parse_file call
    returned,             \* how the last parse_file call ended
    entries,              \* the listing: sequence of HBKEntry
    errors,               \* result.errors
    documentation,        \* result.documentation: <<[kind, src]>>, src = entry index
    stats,                \* result.stats (assigned = FALSE until _analyze_structure stores it)
    processed_entries,    \* locals of _analyze_structure ...
    html_files,
    st_files,
    category_files,
    buckets,
    target_types,
    categories_processed,
    batch_size,
    processed_html,
    initial_count,
    cursor,               \* <<bucket number, i>> of the slot last handled in the round
    elapsed,              \* time.time() - start_time, saturated above the budget
    working_7z,           \* local of _extract_external_7z
    classified,           \* history: listing indices the classification loop looked at
    attempted,            \* history: listing indices whose extraction was attempted
    categories,           \* result.categories: the section names it is keyed by
    truncated,            \* history: classification loop left by the budget break
    rounds,               \* history: rounds of the extraction loop started in this call
    round_elapsed,        \* history: the elapsed time when the current round started
    calls_left,           \* parse_file calls the caller of the instance still makes
    prev,                 \* history: outcome of the previous parse_file call
    disk,                 \* the archives the caller may find at the path it passes
    effects,              \* history: subprocesses spawned and scratch directories created by the call
    scratch,              \* scratch directories that exist now
    extract_calls_left,   \* direct extract_file_content calls the caller makes before its next parse_file call
    efc_target,           \* filename argument of the last direct extract_file_content call
    efc_result,           \* what that call returned ("nocall" since the last parse_file call)
    single,               \* outcome of the last parse_single_file_from_archive call
    run,                  \* main.py: per task, its index_hbk_file run (position, result, ...)
    arrived,              \* main.py: HTTP requests received by the server
    served,               \* main.py: HTTP requests whose handler has completed
    stdout,               \* the lines of a listing tool's output handed to the parser
    listed,               \* what the parser made of them
    mw,                   \* main.py: one request in rate_limit_middleware
    rpc,                  \* main.py: one JSON-RPC payload and the answers of /mcp and /mcp/ws
    proxy                 \* local_mcp_server.py: the stdio loop, its input and its output

vars == << archive, file, max_files_per_type, max_total_files, zip_command,
           archive_path, pc, returned, entries, errors, documentation, stats,
           processed_entries, html_files, st_files, category_files, buckets,
           target_types, categories_processed, batch_size, processed_html,
           initial_count, cursor, elapsed, working_7z, classified, attempted,
           categories, truncated, rounds, round_elapsed, calls_left, prev, disk, effects,
           scratch, extract_calls_left, efc_target, efc_result, single,
           run, arrived, served, stdout, listed, mw, rpc, proxy >>

-----------------------------------------------------------------------------
(* Bounds of the model *)

MaxQuota == 2          \* quotas range over None, 0 .. MaxQuota
MaxPattern == 2        \* small archives: every member pattern up to this length
MaxBlock == 6          \* one-bucket archives of up to this many members
MaxRuns == 2           \* parse_file calls in one behaviour
MaxRequests == 1       \* HTTP requests the server receives besides the rebuild request
MaxLines == 5          \* lines of a listing tool's output
MaxBatchItems == 2     \* items of a JSON-RPC batch
MaxStdin == 3          \* lines on the standard input of the stdio proxy

(* Program constants *)

NoneInt == -1                               \* Python None for an Optional[int]
Inf == 1000000                              \* float('inf')
TimeoutSeconds == 30
TailSkip == 48
CheckEvery == 10
QuotaBatch == 5
MaxBatch == 100
MinFileSizeKB == 1024
MaxFileSizeKB == 51200

None == "None"

Min(a, b) == IF a < b THEN a ELSE b

RECURSIVE SumSeq(_)
SumSeq(s) == IF s = << >> THEN 0 ELSE Head(s) + SumSeq(Tail(s))

-----------------------------------------------------------------------------
(* Data *)

Kinds == { "GLOBAL_FUNCTION", "GLOBAL_PROCEDURE", "GLOBAL_EVENT",
           "OBJECT_FUNCTION", "OBJECT_PROCEDURE", "OBJECT_PROPERTY",
           "OBJECT_EVENT", "OBJECT_CONSTRUCTOR", "OBJECT" }

BucketNames == << "global_methods", "global_events", "global_context",
                  "object_constructors", "object_events", "other_objects" >>

NBuckets == Len(BucketNames)

SupportedExtensions == { ".hbk", ".zip", ".7z" }

ZipCommands == << "7z", "7z.exe", "7za", "7za.exe",
                  "C:\\Program Files\\7-Zip\\7z.exe",
                  "C:\\Program Files (x86)\\7-Zip\\7z.exe",
                  "7-Zip\\7z.exe", "7zip\\7z.exe" >>

Exceptions == { "SafeSubprocessError", "HBKParserError", "Exception" }

(* What extracting a member and converting it yields: a record of a kind,  *)
(* no record, or one of the failures of the extraction or the conversion.  *)
ExtractFailures == { "ExtractTimeout", "ExtractNonZero", "ExtractNoFile",
                     "ExtractIOError", "EmptyContent" }
ConvertFailures == { "NoRecord", "ParserRaises" }
Bodies == Kinds \cup ExtractFailures \cup ConvertFailures

-----------------------------------------------------------------------------
(* Paths *)

Slash == "/"
Backslash == "\\"

Contains(path, sub) ==
    \E i \in 1 .. (Len(path) - Len(sub) + 1) : SubSeq(path, i, i + Len(sub) - 1) = sub

EndsWith(path, ext) == Len(path) > 0 /\ path[Len(path)] = ext

(* entry.path.replace('\\', '/') *)
Normalize(path) == [i \in 1 .. Len(path) |-> IF path[i] = Backslash THEN Slash ELSE path[i]]

(* path.split('/')[-1]: the tokens after the last separator *)
RECURSIVE LastPart(_)
LastPart(path) ==
    IF path = << >> THEN << >>
    ELSE IF path[Len(path)] = Slash THEN << >>
    ELSE LastPart(SubSeq(path, 1, Len(path) - 1)) \o << path[Len(path)] >>

IsCategoriesFile(path) == LastPart(Normalize(path)) = << "__categories__" >>

(* path_parts[-2] if len(path_parts) > 1 else "unknown": the tokens between *)
(* the last two separators of the normalized path                          *)
ParentSegment(path) ==
    LET n == Normalize(path)
        seps == { i \in 1 .. Len(n) : n[i] = Slash }
    IN  IF seps = {} THEN << "unknown" >>
        ELSE LET last == CHOOSE i \in seps : \A j \in seps : j <= i
                 before == { i \in seps : i < last }
                 first == IF before = {} THEN 0
                          ELSE CHOOSE i \in before : \A j \in before : j <= i
             IN  SubSeq(n, first + 1, last - 1)

(* _parse_categories_file (lines 396-440) for an entry whose content, when   *)
(* loaded, decodes: without content the function returns at once             *)
ParseCategoriesFile(entry, cats) ==
    IF entry.content = None THEN cats ELSE cats \cup { ParentSegment(entry.path) }

(* The if/elif chain over an .html path; None when no branch takes it *)
BucketOf(path) ==
    IF Contains(path, << "objects", Slash, "Global context", Slash, "methods" >>)
       \/ Contains(path, << "objects", Backslash, "Global context", Backslash, "methods" >>)
    THEN "global_methods"
    ELSE IF Contains(path, << "objects", Slash, "Global context", Slash, "events" >>)
       \/ Contains(path, << "objects", Backslash, "Global context", Backslash, "events" >>)
    THEN "global_events"
    ELSE IF Contains(path, << "objects", Slash, "Global context" >>)
       \/ Contains(path, << "objects", Backslash, "Global context" >>)
    THEN "global_context"
    ELSE IF Contains(path, << Slash, "ctors", Slash >>)
       \/ Contains(path, << Backslash, "ctors", Backslash >>)
       \/ Contains(path, << Slash, "ctor", Slash >>)
       \/ Contains(path, << Backslash, "ctor", Backslash >>)
    THEN "object_constructors"
    ELSE IF (Contains(path, << Slash, "events", Slash >>)
             \/ Contains(path, << Backslash, "events", Backslash >>))
            /\ ~ Contains(path, << "Global context" >>)
    THEN "object_events"
    ELSE IF Contains(path, << "objects", Slash >>) \/ Contains(path, << "objects", Backslash >>)
    THEN "other_objects"
    ELSE None

-----------------------------------------------------------------------------
(* The archives of the model *)

Stem(n) == "f" \o ToString(n)

TemplateDir(t) ==
    CASE t = "global_methods"      -> << "objects", Slash, "Global context", Slash, "methods", Slash, "catalog1", Slash >>
      [] t = "global_events"       -> << "objects", Slash, "Global context", Slash, "events", Slash >>
      [] t = "global_context"      -> << "objects", Slash, "Global context", Slash, "properties", Slash >>
      [] t = "object_constructors" -> << "objects", Slash, "Array", Slash, "ctors", Slash >>
      [] t = "object_events"       -> << "objects", Slash, "Array", Slash, "events", Slash >>
      [] t = "other_objects"       -> << "objects", Slash, "Array", Slash, "methods", Slash >>
      [] t = "misc"                -> << "help", Slash >>

(* The n-th member of an archive, of kind of member m = [tpl, body] *)
MemberOf(m, n) ==
    CASE m.tpl = "dir" -> [path |-> << "objects", Slash, Stem(n) >>, is_dir |-> TRUE, body |-> None]
      [] m.tpl = "st"  -> [path |-> << "templates", Slash, Stem(n), ".st" >>, is_dir |-> FALSE, body |-> None]
      [] m.tpl = "categories" ->
             [path |-> << "objects", Slash, Stem(n), Slash, "__categories__" >>, is_dir |-> FALSE, body |-> None]
      [] OTHER -> [path |-> TemplateDir(m.tpl) \o << Stem(n), ".html" >>, is_dir |-> FALSE, body |-> m.body]

M(t, b) == [tpl |-> t, body |-> b]

Pool == { M("dir", None), M("st", None), M("categories", None),
          M("global_methods", "GLOBAL_FUNCTION"), M("global_methods", "ParserRaises"),
          M("object_constructors", "OBJECT_CONSTRUCTOR"),
          M("object_events", "ExtractTimeout"), M("other_objects", "NoRecord"),
          M("global_events", "ExtractIOError"),
          M("misc", "OBJECT") }

(* One member per documentation kind, each under the bucket whose slot guard names the kind *)
OneOfEachKind ==
    << M("global_methods", "GLOBAL_FUNCTION"), M("global_methods", "GLOBAL_PROCEDURE"),
       M("global_events", "GLOBAL_EVENT"), M("global_context", "OBJECT_PROPERTY"),
       M("object_constructors", "OBJECT_CONSTRUCTOR"), M("object_events", "OBJECT_EVENT"),
       M("other_objects", "OBJECT_FUNCTION"), M("other_objects", "OBJECT_PROCEDURE"),
       M("other_objects", "OBJECT") >>

NativeKind(b) ==
    CASE b = "global_methods" -> "GLOBAL_FUNCTION"
      [] b = "global_events" -> "GLOBAL_EVENT"
      [] b = "global_context" -> "OBJECT_PROPERTY"
      [] b = "object_constructors" -> "OBJECT_CONSTRUCTOR"
      [] b = "object_events" -> "OBJECT_EVENT"
      [] b = "other_objects" -> "OBJECT_FUNCTION"

RECURSIVE Repeat(_, _)
Repeat(pat, k) == IF k = 0 THEN << >> ELSE pat \o Repeat(pat, k - 1)

Patterns == UNION { [1 .. n -> Pool] : n \in 0 .. MaxPattern }

EndToEndMembers == { M("dir", None), M("global_methods", "GLOBAL_FUNCTION"), M("st", None) }

(* the three members of the end-to-end scenario, in every order *)
EndToEndPatterns == { p \in [1 .. 3 -> EndToEndMembers] : \A i, j \in 1 .. 3 : p[i] = p[j] => i = j }

BlockPatterns ==
    { Repeat(<< M(BucketNames[b], NativeKind(BucketNames[b])) >>, n) :
          b \in 1 .. NBuckets, n \in QuotaBatch .. MaxBlock }

(* c members of every kind, followed by d directories *)
FullPatterns ==
    { Repeat(OneOfEachKind, c) \o Repeat(<< M("dir", None) >>, d) : c \in 1 .. MaxQuota, d \in {0, 2} }

(* archives longer than the skipped tail, and with a bucket larger than a batch *)
BigPatterns ==
    { Repeat(<< M("global_methods", "GLOBAL_FUNCTION") >>, n) \o Repeat(<< M("st", None) >>, TailSkip) :
          n \in {1, MaxBatch + 1} }

ArchivePatterns == Patterns \cup EndToEndPatterns \cup BlockPatterns \cup FullPatterns \cup BigPatterns

ArchiveOf(pat) == [n \in 1 .. Len(pat) |-> MemberOf(pat[n], n)]

Archives == { ArchiveOf(pat) : pat \in ArchivePatterns }

QuotaChoices == {NoneInt} \cup (0 .. MaxQuota)

(* the files handed to parse_file: extension, size and path *)
FileAt(ext, size_kb, path) == [ext |-> ext, size_kb |-> size_kb, path |-> path]

FileChoices == { FileAt(".hbk", 2048, "hbk"), FileAt(".txt", 2048, "hbk"),
                 FileAt(".hbk", 500, "hbk"), FileAt(".hbk", MaxFileSizeKB + 1, "hbk") }

(* two valid archive files at different paths *)
RetainFiles == { FileAt(".hbk", 2048, "hbk"), FileAt(".hbk", 2048, "hbk2") }

-----------------------------------------------------------------------------
(* Helpers of parse_file and _analyze_structure *)

Truthy(x) == x # NoneInt /\ x # 0

(* min_per_type = self.max_files_per_type or float('inf') *)
MinPerType(mfpt) == IF Truthy(mfpt) THEN mfpt ELSE Inf

(* max_total = self.max_total_files or float('inf') *)
MaxTotal(mtf) == IF Truthy(mtf) THEN mtf ELSE Inf

(* validate_file_path(path, self.supported_extensions) raising SafeSubprocessError *)
ValidateFilePathRaises(f) == f.ext \notin SupportedExtensions

(* the validation without its lower bound on the size *)
ValidationFails_NoMinimum(f) ==
    \/ ValidateFilePathRaises(f)
    \/ f.size_kb > MaxFileSizeKB

(* lines 48-67: the three checks that make parse_file return None *)
ValidationFails(f) ==
    \/ ValidateFilePathRaises(f)
    \/ f.size_kb > MaxFileSizeKB
    \/ f.size_kb < MinFileSizeKB

(* the directory test placed after the tests on the name *)
EntryClass_RulesFirst(entry) ==
    IF IsCategoriesFile(entry.path) THEN "categories"
    ELSE IF EndsWith(entry.path, ".html") THEN "html"
    ELSE IF EndsWith(entry.path, ".st") THEN "st"
    ELSE IF entry.is_dir THEN "dir"
    ELSE "other"

(* lines 173-218: which branch of the classification loop takes the entry *)
EntryClass(entry) ==
    IF entry.is_dir THEN "dir"
    ELSE IF IsCategoriesFile(entry.path) THEN "categories"
    ELSE IF EndsWith(entry.path, ".html") THEN "html"
    ELSE IF EndsWith(entry.path, ".st") THEN "st"
    ELSE "other"

(* extract_file_content without its guard *)
NotInitialized_NoGuard(zc, ap) == FALSE

(* if not self._zip_command or not self._archive_path: return None *)
NotInitialized(zc, ap) == zc = None \/ ap = None

(* safe_remove_dir(temp_dir): the directory is gone afterwards *)
SafeRemoveDir(n) == n - 1

(* the removal written after the try block instead of in a finally clause *)
ScratchAfter_NoFinally(outcome, n) ==
    IF outcome \in { "ExtractTimeout", "ExtractIOError" } THEN n ELSE SafeRemoveDir(n)

(* lines 608-625: the scratch directories left when _extract_single_file is    *)
(* left with the given outcome: the finally clause runs on every path          *)
ScratchAfter(outcome, n) == SafeRemoveDir(n)

NoEffects == [probe |-> 0, list7z |-> 0, unzip |-> 0, extract |-> 0, tempdir |-> 0]

(* the tail guard left out: every entry is classified *)
SafeTotal_NoSkip(n) == n

(* safe_entries = entries[:-48] if len(entries) > 48 else entries *)
SafeTotal(n) == IF n > TailSkip THEN n - TailSkip ELSE n

(* the budget compared at every entry instead of every tenth *)
BudgetBreak_EveryEntry(pe, el) == el > TimeoutSeconds

(* the budget check at the head of the classification loop *)
BudgetBreak(pe, el) == pe % CheckEvery = 0 /\ el > TimeoutSeconds

(* The entries the lister builds from the tool's table: content is never loaded *)
ListingOf(a) == [i \in 1 .. Len(a) |-> [path |-> a[i].path, is_dir |-> a[i].is_dir, content |-> None]]

(* what the member stored under a path yields when extracted and converted *)
BodyOf(a, path) == a[CHOOSE i \in 1 .. Len(a) : a[i].path = path].body

ZeroTypes == [k \in Kinds |-> 0]

(* check_found_types() without the reset before it: the counts pile up *)
CheckFoundTypes_NoReset(docs) ==
    [k \in Kinds |-> target_types[k] + Cardinality({ j \in 1 .. Len(docs) : docs[j].kind = k })]

(* target_types reset and check_found_types(): a recount over the documents *)
CheckFoundTypes(docs) ==
    [k \in Kinds |-> Cardinality({ j \in 1 .. Len(docs) : docs[j].kind = k })]

(* all_types_found without its first branch for two unset quotas *)
AllTypesFound_NoUnsetCase(mfpt, mtf, tt, ph) ==
    LET types_satisfied == IF Truthy(mfpt) THEN \A k \in Kinds : tt[k] >= MinPerType(mfpt) ELSE TRUE
        total_satisfied == IF Truthy(mtf) THEN ph >= MaxTotal(mtf) ELSE TRUE
    IN  types_satisfied \/ total_satisfied

AllTypesFound(mfpt, mtf, tt, ph) ==
    IF mfpt = NoneInt /\ mtf = NoneInt THEN FALSE
    ELSE LET types_satisfied == IF Truthy(mfpt) THEN \A k \in Kinds : tt[k] >= MinPerType(mfpt) ELSE TRUE
             total_satisfied == IF Truthy(mtf) THEN ph >= MaxTotal(mtf) ELSE TRUE
         IN  types_satisfied \/ total_satisfied

(* while not all_types_found() and processed_html < max_total *)
LoopCondition(mfpt, mtf, tt, ph) == ~ AllTypesFound(mfpt, mtf, tt, ph) /\ ph < MaxTotal(mtf)

MaxBucketLen(bk) == CHOOSE n \in { Len(bk[b]) : b \in 1 .. NBuckets } :
                        \A b \in 1 .. NBuckets : Len(bk[b]) <= n

(* the unlimited batch one short of the largest bucket *)
BatchSize_OneShort(mfpt, mtf, bk) ==
    IF Truthy(mfpt) \/ Truthy(mtf) THEN QuotaBatch ELSE Min(MaxBatch, MaxBucketLen(bk) - 1)

BatchSize(mfpt, mtf, bk) ==
    IF Truthy(mfpt) \/ Truthy(mtf) THEN QuotaBatch ELSE Min(MaxBatch, MaxBucketLen(bk))

(* the per-kind part of the condition of a slot of bucket b *)
SlotGuard(b, tt, m) ==
    CASE b = 1 -> tt["GLOBAL_FUNCTION"] < m \/ tt["GLOBAL_PROCEDURE"] < m
      [] b = 2 -> tt["GLOBAL_EVENT"] < m
      [] b = 3 -> tt["OBJECT_PROPERTY"] < m
      [] b = 4 -> tt["OBJECT_CONSTRUCTOR"] < m
      [] b = 5 -> tt["OBJECT_EVENT"] < m
      [] b = 6 -> tt["OBJECT_FUNCTION"] < m \/ tt["OBJECT_PROCEDURE"] < m \/ tt["OBJECT"] < m

(* every handler written as "except SafeSubprocessError" *)
Catches_OnlySubprocess(frame, e) == e = "SafeSubprocessError"

(* The except clauses: does the handler of this frame catch exception e *)
Catches(frame, e) ==
    CASE frame = "parse_file"                 -> e \in Exceptions
      [] frame = "_extract_archive"           -> e \in Exceptions
      [] frame = "_create_document_from_html" -> e \in Exceptions
      [] frame = "extract_file_content"       -> e \in Exceptions
      [] frame = "_extract_single_file"       -> e = "SafeSubprocessError"
      [] frame = "parse_single_file_from_archive" -> e \in Exceptions
      [] frame = "index_hbk_file"             -> e \in Exceptions

(* the innermost frame of the stack (innermost first) that catches e *)
RECURSIVE Unwind(_, _)
Unwind(frames, e) ==
    IF frames = << >> THEN "uncaught"
    ELSE IF Catches(Head(frames), e) THEN Head(frames)
    ELSE Unwind(Tail(frames), e)

ListingFrames == << "_extract_archive", "parse_file" >>
(* _create_document_from_html without its try/except *)
ConvertFrames_NoHandler == << "parse_file" >>

ConvertFrames == << "_create_document_from_html", "parse_file" >>
ExtractFrames == << "_extract_single_file", "extract_file_content",
                    "_create_document_from_html", "parse_file" >>

UnsetStats ==
    [assigned |-> FALSE, html_files |-> 0, bucket_files |-> [b \in 1 .. NBuckets |-> 0],
     processed_html |-> 0, categories_processed |-> [b \in 1 .. NBuckets |-> 0],
     found_types |-> ZeroTypes, st_files |-> 0, category_files |-> 0, total_entries |-> 0]

(* main.py: the coroutines that call index_hbk_file: the task created by    *)
(* lifespan (auto_index_on_startup) and the handler of POST /index/rebuild  *)
Tasks == { "startup", "rebuild" }

(* pos: "idle", "parse" (from the call of parse_file to the test of its      *)
(* result), "await" (reindex_all awaited), "returned"; docs: the documents   *)
(* of the parse result, -1 for None; called: reindex_all has been called     *)
NoRun == [pos |-> "idle", result |-> "none", docs |-> -1, called |-> FALSE]

NoSingle == [returned |-> "nocall", documents |-> 0, errors |-> 0, favourable |-> FALSE]

(* the methods class HBKParser defines (it has no base class) *)
HBKParserMethods ==
    { "__init__", "parse_file", "_extract_archive", "_analyze_structure",
      "_create_document_from_html", "_parse_categories_file", "_extract_external_7z",
      "extract_file_content", "_extract_single_file", "get_supported_files",
      "parse_single_file_from_archive" }

NoPrev == [valid |-> FALSE, returned |-> "pending", stats |-> UnsetStats, truncated |-> FALSE,
           documentation |-> << >>, errors |-> << >>, failed |-> 0]

-----------------------------------------------------------------------------
(* State *)

instanceVars == << archive, disk, max_files_per_type, max_total_files >>
resultVars == << errors, documentation, stats >>
classifyVars == << processed_entries, html_files, st_files, category_files, buckets,
                   classified, truncated, categories >>
roundVars == << target_types, categories_processed, batch_size, processed_html,
                initial_count, cursor, attempted, rounds, round_elapsed >>
serverVars == << run, arrived, served >>
listingVars == << stdout, listed >>
mcpVars == << mw, rpc, proxy >>
callerVars == << calls_left, extract_calls_left, efc_target, efc_result, prev, single,
                serverVars, listingVars, mcpVars >>

FreshLocals ==
    /\ entries = << >>
    /\ errors = << >>
    /\ documentation = << >>
    /\ stats = UnsetStats
    /\ processed_entries = 0
    /\ html_files = 0
    /\ st_files = 0
    /\ category_files = 0
    /\ buckets = [b \in 1 .. NBuckets |-> << >>]
    /\ target_types = ZeroTypes
    /\ categories_processed = [b \in 1 .. NBuckets |-> 0]
    /\ batch_size = 0
    /\ processed_html = 0
    /\ initial_count = 0
    /\ cursor = << 1, -1 >>
    /\ elapsed = 0
    /\ working_7z = None
    /\ classified = {}
    /\ attempted = << >>
    /\ truncated = FALSE
    /\ categories = {}
    /\ rounds = 0
    /\ round_elapsed = 0
    /\ effects = NoEffects

(* the result object of the previous call reused: its documents are kept *)
ResetLocals_KeepDocuments ==
    /\ entries' = << >>
    /\ errors' = << >>
    /\ documentation' = documentation
    /\ stats' = UnsetStats
    /\ processed_entries' = 0
    /\ html_files' = 0
    /\ st_files' = 0
    /\ category_files' = 0
    /\ buckets' = [b \in 1 .. NBuckets |-> << >>]
    /\ target_types' = ZeroTypes
    /\ categories_processed' = [b \in 1 .. NBuckets |-> 0]
    /\ batch_size' = 0
    /\ processed_html' = 0
    /\ initial_count' = 0
    /\ cursor' = << 1, -1 >>
    /\ elapsed' = 0
    /\ working_7z' = None
    /\ classified' = {}
    /\ attempted' = << >>
    /\ truncated' = FALSE
    /\ categories' = {}
    /\ rounds' = 0
    /\ round_elapsed' = 0
    /\ effects' = NoEffects

(* lines 69-76 and the locals of the functions: every call starts afresh *)
ResetLocals ==
    /\ entries' = << >>
    /\ errors' = << >>
    /\ documentation' = << >>
    /\ stats' = UnsetStats
    /\ processed_entries' = 0
    /\ html_files' = 0
    /\ st_files' = 0
    /\ category_files' = 0
    /\ buckets' = [b \in 1 .. NBuckets |-> << >>]
    /\ target_types' = ZeroTypes
    /\ categories_processed' = [b \in 1 .. NBuckets |-> 0]
    /\ batch_size' = 0
    /\ processed_html' = 0
    /\ initial_count' = 0
    /\ cursor' = << 1, -1 >>
    /\ elapsed' = 0
    /\ working_7z' = None
    /\ classified' = {}
    /\ attempted' = << >>
    /\ truncated' = FALSE
    /\ categories' = {}
    /\ rounds' = 0
    /\ round_elapsed' = 0
    /\ effects' = NoEffects

NoListing == [grammar |-> "none", rows |-> << >>]

(* the state of a new instance and of its caller, the quotas and the tool's  *)
(* output apart                                                              *)
InitFields ==
    /\ file = FileAt(".hbk", 2048, "hbk")
    /\ zip_command = None
    /\ archive_path = None
    /\ pc = "idle"
    /\ returned = "pending"
    /\ prev = NoPrev
    /\ scratch = 0
    /\ extract_calls_left = 1
    /\ efc_target = None
    /\ efc_result = "nocall"
    /\ single = NoSingle
    /\ run = [t \in Tasks |-> NoRun]
    /\ arrived = 0
    /\ served = 0
    /\ FreshLocals

(* no listing is parsed apart from the calls of the instance *)
NoMw == [pc |-> "none", path |-> None, limiter |-> None, body |-> None,
         downstream |-> << >>, metrics |-> None, passed |-> 0, answer |-> None]

NoBody == [batch |-> FALSE, responses |-> << >>]

NoRpc == [payload |-> [batch |-> FALSE, items |-> << >>], posted |-> FALSE,
          http |-> [status |-> 0, body |-> NoBody], sent |-> FALSE, ws |-> NoBody]

NoProxy == [pc |-> "none", stdin |-> << >>, read |-> 0, written |-> << >>]

(* no request is in the middleware or the endpoints, the stdio proxy does not run *)
IdleMcp ==
    /\ mw = NoMw
    /\ rpc = NoRpc
    /\ proxy = NoProxy

InitCaller ==
    /\ InitFields
    /\ stdout = << >>
    /\ listed = NoListing
    /\ IdleMcp

InitInstance ==
    /\ max_files_per_type \in QuotaChoices
    /\ max_total_files \in QuotaChoices
    /\ InitCaller

Init == InitInstance /\ calls_left = 1 /\ archive \in Archives /\ disk = {archive}

-----------------------------------------------------------------------------
(* parse_file *)

(* extractions of the call that ended in a timeout or a non-zero exit *)
FailedExtractions ==
    Cardinality({ j \in 1 .. Len(attempted) :
                     BodyOf(archive, entries[attempted[j]].path) \in { "ExtractTimeout", "ExtractNonZero" } })

(* parse_file is entered, for the archive now at the path; the previous call's *)
(* outcome is remembered                                                       *)
BeginParseAmong(files) ==
    /\ pc = "idle"
    /\ calls_left > 0
    /\ \E f \in files : file' = f
    /\ \E a \in disk : archive' = a
    /\ calls_left' = calls_left - 1
    /\ prev' = IF returned = "pending" THEN NoPrev
               ELSE [valid |-> TRUE, returned |-> returned, stats |-> stats, truncated |-> truncated,
                     documentation |-> documentation, errors |-> errors,
                     failed |-> FailedExtractions]
    /\ pc' = "validate"
    /\ returned' = "pending"
    /\ efc_result' = "nocall"
    /\ efc_target' = None
    /\ single' = NoSingle
    /\ extract_calls_left' = 1
    /\ ResetLocals
    /\ UNCHANGED << disk, max_files_per_type, max_total_files, scratch >>

BeginParse == BeginParseAmong(FileChoices)

(* parse_file called on the instance by its user *)
CallParseFile ==
    /\ BeginParse
    /\ UNCHANGED << zip_command, archive_path, serverVars, listingVars, mcpVars >>

(* lines 48-67: validation of the extension and of the size; failure returns None *)
Validate ==
    /\ pc = "validate"
    /\ IF ValidationFails(file)
       THEN pc' = "idle" /\ returned' = "None"
       ELSE pc' = "probe" /\ UNCHANGED returned
    /\ UNCHANGED << instanceVars, file, zip_command, archive_path, entries, resultVars,
                    classifyVars, roundVars, elapsed, working_7z, callerVars, effects, scratch >>

(* An exception raised under the given frames ends the call: by the handler of  *)
(* _extract_archive (empty listing, lines 81-83), by the handler of parse_file  *)
(* (lines 92-95), or by leaving parse_file.                                     *)
Abort(frames, e) ==
    LET frame == Unwind(frames, e) IN
    /\ pc' = "idle"
    /\ returned' = IF frame = "uncaught" THEN "raised" ELSE "result"
    /\ errors' = CASE frame = "_extract_archive" -> Append(errors, "extract_failed")
                   [] frame = "parse_file"       -> Append(errors, "parse_error")
                   [] OTHER                      -> errors

(* the listing handed to _analyze_structure without the test for an empty one *)
ReceiveListing_NoEmptyCheck(es) ==
    /\ entries' = es
    /\ pc' = "classify"
    /\ UNCHANGED << returned, errors >>

(* parse_file receives the listing: lines 81-88 and the first lines of _analyze_structure *)
ReceiveListing(es) ==
    /\ entries' = es
    /\ IF es = << >>
       THEN /\ pc' = "idle"
            /\ returned' = "result"
            /\ errors' = Append(errors, "extract_failed")
       ELSE /\ pc' = "classify"
            /\ UNCHANGED << returned, errors >>

InstalledChoices == { {}, {"7za", "7za.exe"} }

FirstWorking(installed) ==
    IF \E i \in 1 .. Len(ZipCommands) : ZipCommands[i] \in installed
    THEN ZipCommands[CHOOSE i \in 1 .. Len(ZipCommands) :
                        /\ ZipCommands[i] \in installed
                        /\ \A j \in 1 .. (i - 1) : ZipCommands[j] \notin installed]
    ELSE None

(* the candidate commands run by the probe: up to the first that works *)
ProbesRun(installed) ==
    IF FirstWorking(installed) = None THEN Len(ZipCommands)
    ELSE CHOOSE i \in 1 .. Len(ZipCommands) : ZipCommands[i] = FirstWorking(installed)

(* lines 459-475: the probe of the candidate commands, first success wins *)
Probe ==
    /\ pc = "probe"
    /\ \E installed \in InstalledChoices :
          LET w == FirstWorking(installed) IN
          /\ working_7z' = w
          /\ effects' = [effects EXCEPT !.probe = @ + ProbesRun(installed)]
          /\ IF w = None
             THEN Abort(ListingFrames, "HBKParserError")
             ELSE pc' = "list7z" /\ UNCHANGED << returned, errors >>
    /\ UNCHANGED << instanceVars, file, zip_command, archive_path, entries, documentation, stats,
                    classifyVars, roundVars, elapsed, callerVars, scratch >>

(* lines 477-484 and 548-586: the 7z listing *)
List7z ==
    /\ pc = "list7z"
    /\ effects' = [effects EXCEPT !.list7z = @ + 1]
    /\ \E outcome \in { "ok", "nonzero", "SafeSubprocessError" } :
          CASE outcome = "SafeSubprocessError" ->
                  /\ Abort(ListingFrames, "HBKParserError")
                  /\ UNCHANGED << zip_command, archive_path, entries >>
            [] outcome = "nonzero" ->
                  /\ pc' = "unzip"
                  /\ UNCHANGED << returned, errors, zip_command, archive_path, entries >>
            [] outcome = "ok" ->
                  /\ zip_command' = working_7z
                  /\ archive_path' = file.path
                  /\ ReceiveListing(ListingOf(archive))
    /\ UNCHANGED << instanceVars, file, documentation, stats, classifyVars, roundVars,
                    elapsed, working_7z, callerVars, scratch >>

(* lines 491-546: the unzip fallback *)
ListUnzip ==
    /\ pc = "unzip"
    /\ effects' = [effects EXCEPT !.unzip = @ + 1]
    /\ \E outcome \in { "ok", "nonzero", "SafeSubprocessError" } :
          IF outcome = "ok" /\ archive # << >>
          THEN /\ zip_command' = "unzip"
               /\ archive_path' = file.path
               /\ ReceiveListing(ListingOf(archive))
          ELSE /\ Abort(ListingFrames, "HBKParserError")
               /\ UNCHANGED << zip_command, archive_path, entries >>
    /\ UNCHANGED << instanceVars, file, documentation, stats, classifyVars, roundVars,
                    elapsed, working_7z, callerVars, scratch >>

-----------------------------------------------------------------------------
(* _analyze_structure *)

AnalyzePositions == { "classify", "while", "round", "extract" }

(* Time passes during _analyze_structure.  The code only compares the elapsed  *)
(* time with the budget, so the clock has two values: within and beyond it.   *)
Tick ==
    /\ pc \in AnalyzePositions
    /\ elapsed <= TimeoutSeconds
    /\ elapsed' = TimeoutSeconds + 1
    /\ UNCHANGED << instanceVars, file, zip_command, archive_path, pc, returned, entries,
                    resultVars, classifyVars, roundVars, working_7z, callerVars, effects, scratch >>

(* lines 157-218: one iteration of the classification loop *)
ClassifyEntry ==
    /\ pc = "classify"
    /\ ~ truncated
    /\ processed_entries < SafeTotal(Len(entries))
    /\ LET pe == processed_entries + 1
           entry == entries[pe]
           class == EntryClass(entry)
       IN  /\ processed_entries' = pe
           /\ IF BudgetBreak(pe, elapsed)
              THEN /\ truncated' = TRUE
                   /\ UNCHANGED << html_files, st_files, category_files, buckets, classified,
                                   categories >>
              ELSE /\ classified' = classified \cup {pe}
                   /\ categories' = IF class = "categories"
                                    THEN ParseCategoriesFile(entry, categories) ELSE categories
                   /\ UNCHANGED truncated
                   /\ category_files' = IF class = "categories" THEN category_files + 1 ELSE category_files
                   /\ html_files' = IF class = "html" THEN html_files + 1 ELSE html_files
                   /\ st_files' = IF class = "st" THEN st_files + 1 ELSE st_files
                   /\ buckets' = IF class # "html" \/ BucketOf(entry.path) = None THEN buckets
                                 ELSE LET b == CHOOSE c \in 1 .. NBuckets :
                                                   BucketNames[c] = BucketOf(entry.path)
                                      IN  [buckets EXCEPT ![b] = Append(@, pe)]
    /\ UNCHANGED << instanceVars, file, zip_command, archive_path, pc, returned, entries,
                    resultVars, roundVars, elapsed, working_7z, callerVars, effects, scratch >>

(* lines 240-256: the classification loop is over; the batch size is fixed *)
BeginExtraction ==
    /\ pc = "classify"
    /\ truncated \/ processed_entries = SafeTotal(Len(entries))
    /\ batch_size' = BatchSize(max_files_per_type, max_total_files, buckets)
    /\ categories_processed' = [b \in 1 .. NBuckets |-> 0]
    /\ pc' = "while"
    /\ UNCHANGED << instanceVars, file, zip_command, archive_path, returned, entries,
                    resultVars, classifyVars, target_types, processed_html, initial_count,
                    cursor, attempted, rounds, round_elapsed, elapsed, working_7z, callerVars,
                    effects, scratch >>

(* a round that starts every bucket from its first entry again *)
StartRound_FromFirstEntry ==
    /\ pc = "while"
    /\ LoopCondition(max_files_per_type, max_total_files, target_types, processed_html)
    /\ initial_count' = processed_html
    /\ cursor' = << 1, -1 >>
    /\ rounds' = rounds + 1
    /\ round_elapsed' = elapsed
    /\ categories_processed' = [b \in 1 .. NBuckets |-> 0]
    /\ pc' = "round"
    /\ UNCHANGED << instanceVars, file, zip_command, archive_path, returned, entries,
                    resultVars, classifyVars, target_types, batch_size,
                    processed_html, attempted, elapsed, working_7z, callerVars, effects, scratch >>

(* lines 257-258: the loop condition holds and a round starts *)
StartRound ==
    /\ pc = "while"
    /\ LoopCondition(max_files_per_type, max_total_files, target_types, processed_html)
    /\ initial_count' = processed_html
    /\ cursor' = << 1, -1 >>
    /\ rounds' = rounds + 1
    /\ round_elapsed' = elapsed
    /\ pc' = "round"
    /\ UNCHANGED << instanceVars, file, zip_command, archive_path, returned, entries,
                    resultVars, classifyVars, target_types, categories_processed, batch_size,
                    processed_html, attempted, elapsed, working_7z, callerVars, effects, scratch >>

(* slot <<b, i>> of the current round passes the condition of its for-loop body *)
Eligible(b, i) ==
    /\ categories_processed[b] + i < Len(buckets[b])
    /\ SlotGuard(b, target_types, MinPerType(max_files_per_type))

(* the for-loop of a bucket started again after each of its slots *)
FirstOpen_Restart(b) == 0

(* the first slot of bucket b not yet handled in this round *)
FirstOpen(b) == IF b = cursor[1] THEN cursor[2] + 1 ELSE 0

(* buckets, from the cursor's on, that still hold a slot passing its condition *)
OpenBuckets == { b \in cursor[1] .. NBuckets : FirstOpen(b) < batch_size /\ Eligible(b, FirstOpen(b)) }

Slots == { << b, FirstOpen(b) >> : b \in OpenBuckets }

NextSlot == LET b == CHOOSE c \in OpenBuckets : \A d \in OpenBuckets : c <= d
            IN  << b, FirstOpen(b) >>

(* the slice of a bucket taken from its end *)
SlotEntry_FromEnd(b, i) == buckets[b][Len(buckets[b]) - (categories_processed[b] + i)]

(* entry = <bucket>[categories_processed[<bucket>] + i] *)
SlotEntry(b, i) == buckets[b][categories_processed[b] + i + 1]

(* the position of a bucket moved on by one entry, not by the batch *)
Advance_ByOne(from, to) ==
    [b \in 1 .. NBuckets |->
        IF from <= b /\ b < to THEN categories_processed[b] + 1
        ELSE categories_processed[b]]

(* categories_processed[..] += batch_size for the buckets whose for-loop is left *)
Advance(from, to) ==
    [b \in 1 .. NBuckets |->
        IF from <= b /\ b < to THEN categories_processed[b] + batch_size
        ELSE categories_processed[b]]

(* _create_document_from_html (lines 354-374) for the next slot that passes its *)
(* condition, down to the subprocess of _extract_single_file (lines 600-609):   *)
(* the scratch directory is created and the extraction command is started       *)
ExtractNext ==
    /\ pc = "round"
    /\ Slots # {}
    /\ LET b == NextSlot[1]
           i == NextSlot[2]
           src == SlotEntry(b, i)
       IN  /\ attempted' = Append(attempted, src)
           /\ cursor' = << b, i >>
           /\ categories_processed' = Advance(cursor[1], b)
    /\ IF NotInitialized(zip_command, archive_path)
       THEN UNCHANGED << effects, scratch >>
       ELSE /\ scratch' = scratch + 1
            /\ effects' = [effects EXCEPT !.extract = @ + 1, !.tempdir = @ + 1]
    /\ pc' = "extract"
    /\ UNCHANGED << instanceVars, file, zip_command, archive_path, returned, entries, resultVars,
                    classifyVars, target_types, batch_size, processed_html, initial_count,
                    rounds, round_elapsed, elapsed, working_7z, callerVars >>

(* lines 611-625 and 376-394: the extraction command is over: the file is read, *)
(* the scratch directory removed, the content converted, the document appended  *)
ExtractReturn ==
    /\ pc = "extract"
    /\ LET src == attempted[Len(attempted)]
           body == IF NotInitialized(zip_command, archive_path) THEN "ExtractNonZero"
                   ELSE BodyOf(archive, entries[src].path)
           frame == CASE body = "ParserRaises"   -> Unwind(ConvertFrames, "Exception")
                      [] body = "ExtractTimeout" -> Unwind(ExtractFrames, "SafeSubprocessError")
                      [] body = "ExtractIOError" -> Unwind(ExtractFrames, "Exception")
                      [] OTHER                   -> "none"
       IN  /\ scratch' = IF NotInitialized(zip_command, archive_path) THEN scratch
                         ELSE ScratchAfter(body, scratch)
           /\ IF frame \in { "parse_file", "uncaught" }
              THEN /\ Abort(<< frame >>, "Exception")
                   /\ UNCHANGED << documentation, processed_html >>
              ELSE /\ documentation' = IF body \in Kinds
                                       THEN Append(documentation, [kind |-> body, src |-> src])
                                       ELSE documentation
                   /\ processed_html' = processed_html + 1
                   /\ pc' = "round"
                   /\ UNCHANGED << returned, errors >>
    /\ UNCHANGED << instanceVars, file, zip_command, archive_path, entries, stats,
                    classifyVars, target_types, categories_processed, batch_size, initial_count,
                    cursor, attempted, rounds, round_elapsed, elapsed, working_7z, callerVars,
                    effects >>

(* lines 318-326: the round is over: recount of the kinds, no-progress check *)
EndRound ==
    /\ pc = "round"
    /\ Slots = {}
    /\ categories_processed' = Advance(cursor[1], NBuckets + 1)
    /\ target_types' = CheckFoundTypes(documentation)
    /\ pc' = IF processed_html = initial_count THEN "break" ELSE "while"
    /\ UNCHANGED << instanceVars, file, zip_command, archive_path, returned, entries,
                    resultVars, classifyVars, batch_size, processed_html, initial_count,
                    cursor, attempted, rounds, round_elapsed, elapsed, working_7z, callerVars,
                    effects, scratch >>

(* lines 328-352 and 90: the loop is left, the statistics are stored, the result returned *)
Finish ==
    /\ \/ pc = "break"
       \/ /\ pc = "while"
          /\ ~ LoopCondition(max_files_per_type, max_total_files, target_types, processed_html)
    /\ stats' = [assigned |-> TRUE,
                 html_files |-> html_files,
                 bucket_files |-> [b \in 1 .. NBuckets |-> Len(buckets[b])],
                 processed_html |-> processed_html,
                 categories_processed |-> categories_processed,
                 found_types |-> target_types,
                 st_files |-> st_files,
                 category_files |-> category_files,
                 total_entries |-> Len(entries)]
    /\ returned' = "result"
    /\ pc' = "idle"
    /\ UNCHANGED << instanceVars, file, zip_command, archive_path, entries, errors,
                    documentation, classifyVars, roundVars, elapsed, working_7z, callerVars,
                    effects, scratch >>

-----------------------------------------------------------------------------
(* extract_file_content, called by the user of the instance *)

AbsentName == << "absent", ".html" >>

(* the filename a caller asks for: the first file of the archive, or a name   *)
(* the archive does not hold when it has no file                              *)
DirectTargets(a) ==
    IF \E i \in 1 .. Len(a) : ~ a[i].is_dir
    THEN { a[CHOOSE i \in 1 .. Len(a) : ~ a[i].is_dir /\ \A k \in 1 .. (i - 1) : a[k].is_dir].path }
    ELSE { AbsentName }

(* what the extraction command yields for the filename *)
DirectBody(a, filename) ==
    IF \E i \in 1 .. Len(a) : a[i].path = filename THEN BodyOf(a, filename) ELSE "ExtractNoFile"

DirectFrames == << "_extract_single_file", "extract_file_content" >>

(* lines 588-609: extract_file_content(filename) up to the extraction command *)
CallExtractFileContent ==
    /\ pc = "idle"
    /\ extract_calls_left > 0
    /\ extract_calls_left' = extract_calls_left - 1
    /\ \E t \in DirectTargets(archive) : efc_target' = t
    /\ IF NotInitialized(zip_command, archive_path)
       THEN /\ efc_result' = "None"
            /\ effects' = NoEffects
            /\ UNCHANGED << pc, scratch >>
       ELSE /\ efc_result' = "pending"
            /\ effects' = [NoEffects EXCEPT !.extract = 1, !.tempdir = 1]
            /\ scratch' = scratch + 1
            /\ pc' = "efc"
    /\ UNCHANGED << instanceVars, file, zip_command, archive_path, returned, entries, resultVars,
                    classifyVars, roundVars, elapsed, working_7z, calls_left, prev, single,
                    serverVars, listingVars, mcpVars >>

(* lines 611-625 and 594-598: the command is over; the content or None is returned *)
ExtractFileContentReturn ==
    /\ pc = "efc"
    /\ LET body == DirectBody(archive, efc_target)
           frame == CASE body = "ExtractTimeout" -> Unwind(DirectFrames, "SafeSubprocessError")
                      [] body = "ExtractIOError" -> Unwind(DirectFrames, "Exception")
                      [] OTHER                   -> "none"
       IN  /\ scratch' = ScratchAfter(body, scratch)
           /\ efc_result' = IF frame = "uncaught" THEN "raised"
                            ELSE IF body \in { "ExtractTimeout", "ExtractNonZero",
                                               "ExtractNoFile", "ExtractIOError" } THEN "None"
                            ELSE "bytes"
    /\ pc' = "idle"
    /\ UNCHANGED << instanceVars, file, zip_command, archive_path, returned, entries, resultVars,
                    classifyVars, roundVars, elapsed, working_7z, calls_left, prev,
                    extract_calls_left, efc_target, effects, single, serverVars, listingVars, mcpVars >>

-----------------------------------------------------------------------------
(* parse_single_file_from_archive, called by the user of the instance *)

(* lines 654-720 for an archive file f, the installed tools and the target     *)
(* path t: what the call returns.  favourable records that the file passes     *)
(* validation, a tool works and t is an .html member that extracts and         *)
(* converts.  A call of a method the class does not define raises              *)
(* AttributeError inside the try block of lines 672-720.                       *)
SingleFileResult(f, installed, t) ==
    LET body == DirectBody(archive, t)
        fav == /\ FirstWorking(installed) # None
               /\ EndsWith(t, ".html")
               /\ body \in Kinds
        failed == [returned |-> "result", documents |-> 0, errors |-> 1, favourable |-> fav]
    IN  IF ValidateFilePathRaises(f) THEN [NoSingle EXCEPT !.returned = "None"]
        ELSE IF "_get_7zip_command" \notin HBKParserMethods
        THEN IF Unwind(<< "parse_single_file_from_archive" >>, "Exception") = "uncaught"
             THEN [returned |-> "raised", documents |-> 0, errors |-> 0, favourable |-> fav]
             ELSE failed
        ELSE IF FirstWorking(installed) = None THEN failed
        ELSE IF body \in { "ExtractTimeout", "ExtractNonZero", "ExtractNoFile",
                           "ExtractIOError", "EmptyContent" } THEN failed
        ELSE IF ~ EndsWith(t, ".html") THEN failed
        ELSE IF body \in Kinds
        THEN [returned |-> "result", documents |-> 1, errors |-> 0, favourable |-> fav]
        ELSE failed

(* lines 677-680: the tool and the archive path are retained once a tool is found *)
SingleRetainsTool(f, installed) ==
    /\ ~ ValidateFilePathRaises(f)
    /\ "_get_7zip_command" \in HBKParserMethods
    /\ FirstWorking(installed) # None

(* the method is called on an instance built without quotas that has parsed  *)
(* no archive yet: it reads neither the quotas nor the state of the instance  *)
ParseSingleFileFromArchive ==
    /\ pc = "idle"
    /\ returned = "pending"
    /\ max_files_per_type = NoneInt
    /\ max_total_files = NoneInt
    /\ extract_calls_left > 0
    /\ extract_calls_left' = extract_calls_left - 1
    /\ \E f \in FileChoices, installed \in InstalledChoices, t \in DirectTargets(archive) :
          /\ single' = SingleFileResult(f, installed, t)
          /\ IF SingleRetainsTool(f, installed)
             THEN zip_command' = FirstWorking(installed) /\ archive_path' = f.path
             ELSE UNCHANGED << zip_command, archive_path >>
    /\ UNCHANGED << instanceVars, file, pc, returned, entries, resultVars, classifyVars,
                    roundVars, elapsed, working_7z, calls_left, prev, efc_target, efc_result,
                    effects, scratch, serverVars, listingVars, mcpVars >>

Next ==
    \/ CallParseFile
    \/ Validate
    \/ Probe
    \/ List7z
    \/ ListUnzip
    \/ Tick
    \/ ClassifyEntry
    \/ BeginExtraction
    \/ StartRound
    \/ ExtractNext
    \/ ExtractReturn
    \/ EndRound
    \/ Finish
    \/ CallExtractFileContent
    \/ ExtractFileContentReturn
    \/ ParseSingleFileFromArchive

Spec == Init /\ [][Next]_vars

-----------------------------------------------------------------------------
(* src/main.py: index_hbk_file and the coroutines that call it, on the one    *)
(* event loop of the server.  A coroutine runs until it awaits: parse_file is *)
(* called without await, so from its call to the next await of the task no    *)
(* other coroutine runs.                                                      *)

(* no task is between its call of parse_file and its next await *)
LoopFree == \A t \in Tasks : run[t].pos # "parse"

(* the gate left out: any result that is not None is published *)
MayPublish_NoDocumentCheck(ret, docs) == ret = "result"

(* main.py lines 123-129: reindex_all is reached only with a result that is  *)
(* not None and holds documentation                                          *)
MayPublish(ret, docs) == ret = "result" /\ docs # << >>

(* main.py lines 82-99 and 355-374: the coroutine ends before index_hbk_file *)
(* (no directory, no file, index already filled, Elasticsearch unavailable)  *)
TaskDeclines(t) ==
    /\ LoopFree
    /\ pc = "idle"
    /\ run[t].pos = "idle"
    /\ run' = [run EXCEPT ![t].pos = "returned"]
    /\ UNCHANGED << instanceVars, file, zip_command, archive_path, pc, returned, entries,
                    resultVars, classifyVars, roundVars, elapsed, working_7z, calls_left,
                    extract_calls_left, efc_target, efc_result, prev, single, effects, scratch,
                    arrived, served, listingVars, mcpVars >>

(* main.py lines 104/381 and 116-121: the coroutine calls index_hbk_file,     *)
(* which builds a new HBKParser and calls parse_file                          *)
StartIndexRun(t) ==
    /\ LoopFree
    /\ run[t].pos = "idle"
    /\ BeginParse
    /\ zip_command' = None
    /\ archive_path' = None
    /\ run' = [run EXCEPT ![t].pos = "parse"]
    /\ UNCHANGED << arrived, served, listingVars, mcpVars >>

(* main.py lines 123-134 and 142-144: parse_file is over; the result is       *)
(* tested and reindex_all called and awaited, or False returned               *)
IndexGate(t) ==
    /\ run[t].pos = "parse"
    /\ pc = "idle"
    /\ returned # "pending"
    /\ LET docs == IF returned = "result" THEN Len(documentation) ELSE -1
       IN  IF returned = "raised"
           THEN run' = [run EXCEPT ![t] =
                           [pos |-> "returned", docs |-> docs, called |-> FALSE,
                            result |-> IF Unwind(<< "index_hbk_file" >>, "Exception") = "uncaught"
                                       THEN "raised" ELSE "False"]]
           ELSE IF MayPublish(returned, documentation)
           THEN run' = [run EXCEPT ![t] = [pos |-> "await", docs |-> docs, called |-> TRUE,
                                            result |-> "none"]]
           ELSE run' = [run EXCEPT ![t] = [pos |-> "returned", docs |-> docs, called |-> FALSE,
                                            result |-> "False"]]
    /\ UNCHANGED << instanceVars, file, zip_command, archive_path, pc, returned, entries,
                    resultVars, classifyVars, roundVars, elapsed, working_7z, calls_left,
                    extract_calls_left, efc_target, efc_result, prev, single, effects, scratch,
                    arrived, served, listingVars, mcpVars >>

(* main.py lines 134-144: reindex_all is over: it returned True or False,     *)
(* or it (or the count of the documents after it) raised                      *)
ReindexReturn(t) ==
    /\ LoopFree
    /\ pc = "idle"
    /\ run[t].pos = "await"
    /\ \E outcome \in { "True", "False", "Exception" } :
          run' = [run EXCEPT ![t].pos = "returned",
                             ![t].result =
                                 IF outcome # "Exception" THEN outcome
                                 ELSE IF Unwind(<< "index_hbk_file" >>, outcome) = "uncaught"
                                 THEN "raised" ELSE "False"]
    /\ UNCHANGED << instanceVars, file, zip_command, archive_path, pc, returned, entries,
                    resultVars, classifyVars, roundVars, elapsed, working_7z, calls_left,
                    extract_calls_left, efc_target, efc_result, prev, single, effects, scratch,
                    arrived, served, listingVars, mcpVars >>

(* a client sends an HTTP request (other than the rebuild request) *)
RequestArrives ==
    /\ arrived < MaxRequests
    /\ arrived' = arrived + 1
    /\ UNCHANGED << instanceVars, file, zip_command, archive_path, pc, returned, entries,
                    resultVars, classifyVars, roundVars, elapsed, working_7z, calls_left,
                    extract_calls_left, efc_target, efc_result, prev, single, effects, scratch,
                    run, served, listingVars, mcpVars >>

(* the event loop runs the handler of a received request to its end *)
HandleRequest ==
    /\ LoopFree
    /\ served < arrived
    /\ served' = served + 1
    /\ UNCHANGED << instanceVars, file, zip_command, archive_path, pc, returned, entries,
                    resultVars, classifyVars, roundVars, elapsed, working_7z, calls_left,
                    extract_calls_left, efc_target, efc_result, prev, single, effects, scratch,
                    run, arrived, listingVars, mcpVars >>

NextServer ==
    \/ \E t \in Tasks : TaskDeclines(t)
    \/ \E t \in Tasks : StartIndexRun(t)
    \/ Validate
    \/ Probe
    \/ List7z
    \/ ListUnzip
    \/ Tick
    \/ ClassifyEntry
    \/ BeginExtraction
    \/ StartRound
    \/ ExtractNext
    \/ ExtractReturn
    \/ EndRound
    \/ Finish
    \/ \E t \in Tasks : IndexGate(t)
    \/ \E t \in Tasks : ReindexReturn(t)
    \/ RequestArrives
    \/ HandleRequest

(* the archives in the directory of the server *)
ServerPatterns ==
    { << >>,
      << M("dir", None), M("global_methods", "GLOBAL_FUNCTION"), M("st", None) >>,
      << M("other_objects", "NoRecord") >>,
      << M("object_events", "ExtractTimeout"), M("object_constructors", "OBJECT_CONSTRUCTOR") >> }

InitServer ==
    /\ InitInstance
    /\ calls_left = MaxRuns
    /\ archive \in { ArchiveOf(pat) : pat \in ServerPatterns }
    /\ disk = {archive}
    /\ max_files_per_type = NoneInt
    /\ max_total_files = NoneInt

SpecServer == InitServer /\ [][NextServer]_vars

-----------------------------------------------------------------------------
(* The two listing grammars of _extract_external_7z, as functions of the      *)
(* lines of the tool's output.  A line is known by what the parsers test:     *)
(* a run of dashes, the number of its fields, the attribute or name of a row. *)

LineKinds == { "delim", "row", "dir", "header", "short", "blank" }

LineSeqs == UNION { [1 .. n -> LineKinds] : n \in 0 .. MaxLines }

(* '---------------' in line *)
Delimiter7z(kind) == kind = "delim"

(* line.strip().startswith('------') *)
DelimiterUnzip(kind) == kind = "delim"

(* len(line.split()): date time attr size compressed name; a totals or other *)
(* short line; the column titles "Date Time Attr Size Compressed Name"        *)
Fields7z(kind) ==
    CASE kind \in { "row", "dir", "header" } -> 6
      [] kind = "short" -> 3
      [] OTHER -> 0

(* len(line.split()): length date time name; "Length Date Time Name" *)
FieldsUnzip(kind) ==
    CASE kind \in { "row", "dir", "header" } -> 4
      [] kind = "short" -> 3
      [] OTHER -> 0

(* lines 558-578: the row of a line inside the file section, if it yields one; *)
(* the name of the column titles, "Name", does not start with 'Date'           *)
Row7z(lines, n) ==
    IF Fields7z(lines[n]) >= 6
    THEN << [line |-> n, is_dir |-> lines[n] = "dir"] >>
    ELSE << >>

(* lines 520-534 *)
RowUnzip(lines, n) ==
    IF FieldsUnzip(lines[n]) >= 4
    THEN << [line |-> n, is_dir |-> lines[n] = "dir"] >>
    ELSE << >>

(* lines 550-580: every delimiter line switches the file section on or off *)
RECURSIVE Parse7zFrom(_, _, _)
Parse7zFrom(lines, n, in_files_section) ==
    IF n > Len(lines) THEN << >>
    ELSE IF Delimiter7z(lines[n]) THEN Parse7zFrom(lines, n + 1, ~ in_files_section)
    ELSE (IF in_files_section THEN Row7z(lines, n) ELSE << >>)
         \o Parse7zFrom(lines, n + 1, in_files_section)

Parse7zListing(lines) == Parse7zFrom(lines, 1, FALSE)

(* lines 507-537: the first delimiter line opens the table, the next one ends *)
(* the loop                                                                   *)
RECURSIVE ParseUnzipFrom(_, _, _)
ParseUnzipFrom(lines, n, in_files_section) ==
    IF n > Len(lines) THEN << >>
    ELSE IF ~ in_files_section
    THEN ParseUnzipFrom(lines, n + 1, DelimiterUnzip(lines[n]))
    ELSE IF DelimiterUnzip(lines[n]) THEN << >>
    ELSE RowUnzip(lines, n) \o ParseUnzipFrom(lines, n + 1, TRUE)

ParseUnzipListing(lines) == ParseUnzipFrom(lines, 1, FALSE)

Grammars == { "7z", "unzip" }

(* the lister parses the output of the tool it ran *)
ParseListing ==
    /\ pc = "idle"
    /\ listed = NoListing
    /\ \E g \in Grammars :
          listed' = [grammar |-> g,
                     rows |-> IF g = "7z" THEN Parse7zListing(stdout) ELSE ParseUnzipListing(stdout)]
    /\ UNCHANGED << instanceVars, file, zip_command, archive_path, pc, returned, entries,
                    resultVars, classifyVars, roundVars, elapsed, working_7z, calls_left,
                    extract_calls_left, efc_target, efc_result, prev, single, effects, scratch,
                    serverVars, stdout, mcpVars >>

NextListing == ParseListing

InitListing ==
    /\ max_files_per_type = NoneInt
    /\ max_total_files = NoneInt
    /\ InitFields
    /\ calls_left = 0
    /\ archive = << >>
    /\ disk = {archive}
    /\ stdout \in LineSeqs
    /\ listed = NoListing
    /\ IdleMcp

(* any output of the tool, parsed in either grammar *)
SpecListing == InitListing /\ [][NextListing]_vars

-----------------------------------------------------------------------------
(* src/main.py and local_mcp_server.py: the protocol layer.  No archive is     *)
(* parsed while it is looked at.                                               *)

ParserUnused ==
    /\ max_files_per_type = NoneInt
    /\ max_total_files = NoneInt
    /\ InitFields
    /\ calls_left = 0
    /\ archive = << >>
    /\ disk = {archive}
    /\ stdout = << >>
    /\ listed = NoListing

parserVars == << instanceVars, file, zip_command, archive_path, pc, returned, entries,
                 resultVars, classifyVars, roundVars, elapsed, working_7z, calls_left,
                 extract_calls_left, efc_target, efc_result, prev, single, serverVars,
                 listingVars, effects, scratch >>

-----------------------------------------------------------------------------
(* rate_limit_middleware, lines 166-238: one request.  What the rate limiter,  *)
(* the downstream application (at each of its calls) and the metrics collector *)
(* do with it are inputs.                                                      *)

MwRequests ==
    [pc : {"start"}, path : {"/mcp", "/health"},
     limiter : {"ok", "RateLimitExceeded", "Exception"},
     body : {"ok", "Exception"},
     downstream : [1 .. 2 -> {"response", "Exception"}],
     metrics : {"ok", "Exception"},
     passed : {0}, answer : {None}]

(* lines 176-202: the diagnostic prints; on /mcp the body is read, and every    *)
(* exception of that block is swallowed                                         *)
MwReadBody ==
    /\ mw.pc = "start"
    /\ mw' = [mw EXCEPT !.pc = "check"]
    /\ UNCHANGED << parserVars, rpc, proxy >>

(* line 204: await rate_limiter.check_rate_limit(client_ip) *)
MwCheckRateLimit ==
    /\ mw.pc = "check"
    /\ mw' = [mw EXCEPT !.pc = CASE mw.limiter = "ok" -> "call_next"
                                 [] mw.limiter = "RateLimitExceeded" -> "limited"
                                 [] OTHER -> "error"]
    /\ UNCHANGED << parserVars, rpc, proxy >>

(* lines 207-209: response = await call_next(request) *)
MwCallNext ==
    /\ mw.pc = "call_next"
    /\ mw' = [mw EXCEPT !.passed = @ + 1,
                        !.pc = IF mw.downstream[mw.passed + 1] = "response" THEN "metrics" ELSE "error"]
    /\ UNCHANGED << parserVars, rpc, proxy >>

(* lines 212-219: the two metrics calls, then the response is returned *)
MwRecordMetrics ==
    /\ mw.pc = "metrics"
    /\ mw' = IF mw.metrics = "ok" THEN [mw EXCEPT !.pc = "done", !.answer = "downstream"]
             ELSE [mw EXCEPT !.pc = "error"]
    /\ UNCHANGED << parserVars, rpc, proxy >>

(* lines 221-232: except RateLimitExceeded; an exception of metrics.increment  *)
(* leaves the middleware                                                       *)
MwRateLimited ==
    /\ mw.pc = "limited"
    /\ mw' = [mw EXCEPT !.pc = "done", !.answer = IF mw.metrics = "ok" THEN "429" ELSE "raised"]
    /\ UNCHANGED << parserVars, rpc, proxy >>

(* lines 233-238: except Exception: the error is counted and call_next is      *)
(* called (again)                                                              *)
MwOnException ==
    /\ mw.pc = "error"
    /\ mw' = IF mw.metrics # "ok" THEN [mw EXCEPT !.pc = "done", !.answer = "raised"]
             ELSE [mw EXCEPT !.pc = "done", !.passed = @ + 1,
                             !.answer = IF mw.downstream[mw.passed + 1] = "response"
                                        THEN "downstream" ELSE "raised"]
    /\ UNCHANGED << parserVars, rpc, proxy >>

NextMiddleware ==
    \/ MwReadBody
    \/ MwCheckRateLimit
    \/ MwCallNext
    \/ MwRecordMetrics
    \/ MwRateLimited
    \/ MwOnException

InitMiddleware ==
    /\ ParserUnused
    /\ mw \in MwRequests
    /\ rpc = NoRpc
    /\ proxy = NoProxy

SpecMiddleware == InitMiddleware /\ [][NextMiddleware]_vars

-----------------------------------------------------------------------------
(* POST /mcp (mcp_jsonrpc_endpoint) and /mcp/ws (mcp_websocket_endpoint with   *)
(* process_jsonrpc_message): one decoded JSON-RPC payload given to both.       *)
(* An item is a JSON value of the payload: a scalar, or an object with its     *)
(* "jsonrpc", "method", "params" (an object or not) and "id" ("null" when      *)
(* absent), and with what the tool handler does when the item calls a tool.    *)

Ids == { "null", "a", "b" }

Methods == { "initialize", "resources/read", "tools/call", "nosuch" }

ToolOutcomes == { "ok", "es_down", "unknown_tool", "handler_raises" }

ScalarItem == [kind |-> "scalar", jsonrpc |-> None, method |-> None, params |-> None,
               outcome |-> None, id |-> "null"]

(* fields no branch reads are held at one value *)
ObjectItems ==
    { it \in [kind : {"dict"}, jsonrpc : {"2.0", "1.0"}, method : Methods,
              params : {"dict", "list"}, outcome : ToolOutcomes, id : Ids] :
         /\ it.jsonrpc = "1.0" => it.method = "initialize"
         /\ it.method # "tools/call" => (it.params = "dict" /\ it.outcome = "ok")
         /\ it.params = "list" => it.outcome = "ok" }

JsonItems == {ScalarItem} \cup ObjectItems

RECURSIVE SeqsUpTo(_, _)
SeqsUpTo(S, n) ==
    IF n = 0 THEN { << >> }
    ELSE LET shorter == SeqsUpTo(S, n - 1)
         IN  shorter \cup { Append(q, x) : q \in { r \in shorter : Len(r) = n - 1 }, x \in S }

Payloads ==
    { [batch |-> FALSE, items |-> << it >>] : it \in JsonItems }
    \cup { [batch |-> TRUE, items |-> q] : q \in SeqsUpTo(JsonItems, MaxBatchItems) }

ErrorResponse(id, code) ==
    [id |-> id, kind |-> "error", code |-> code, content |-> None, isError |-> FALSE]

ResultResponse(id, content) ==
    [id |-> id, kind |-> "result", code |-> 0, content |-> content, isError |-> FALSE]

(* an exception leaves the branch *)
Raised == [id |-> "null", kind |-> "raised", code |-> 0, content |-> None, isError |-> FALSE]

(* lines 849-877: mcp_endpoint_handler returns the handler's response, and for *)
(* Elasticsearch not connected, an unknown tool and an exception in the        *)
(* handler MCPResponse(content=[], error=...)                                  *)
McpEndpointHandler(outcome) ==
    IF outcome = "ok" THEN [content |-> "found", error |-> FALSE]
    ELSE [content |-> "empty", error |-> TRUE]

(* the method branches, written three times in main.py (lines 609-678, 682-833 *)
(* and 964-1109) with the same answers; params.get of the tools/call branch    *)
(* raises AttributeError when "params" is not an object                        *)
MethodResponse(item) ==
    CASE item.method = "initialize"     -> ResultResponse(item.id, "serverInfo")
      [] item.method = "resources/read" -> ErrorResponse(item.id, -32004)
      [] item.method = "tools/call"     ->
            IF item.params # "dict" THEN Raised
            ELSE ResultResponse(item.id, McpEndpointHandler(item.outcome).content)
      [] OTHER                          -> ErrorResponse(item.id, -32601)

One(r) == [batch |-> FALSE, responses |-> << r >>]

(* lines 681-846: a payload that is not a list; data.get of line 683 raises    *)
(* for a scalar before request_id is assigned                                  *)
HttpSingle(item) ==
    IF item.kind = "scalar" THEN [status |-> 500, body |-> One(ErrorResponse("null", -32603))]
    ELSE IF item.jsonrpc # "2.0" THEN [status |-> 200, body |-> One(ErrorResponse(item.id, -32600))]
    ELSE IF MethodResponse(item) = Raised
    THEN [status |-> 500, body |-> One(ErrorResponse(item.id, -32603))]
    ELSE [status |-> 200, body |-> One(MethodResponse(item))]

(* lines 606-679 and 837-846: the loop over the items of a batch, from item n  *)
RECURSIVE HttpBatchFrom(_, _, _)
HttpBatchFrom(items, n, results) ==
    IF n > Len(items) THEN [status |-> 200, body |-> [batch |-> TRUE, responses |-> results]]
    ELSE IF items[n].kind = "scalar" \/ items[n].jsonrpc # "2.0"
    THEN HttpBatchFrom(items, n + 1, Append(results, ErrorResponse(items[n].id, -32600)))
    ELSE IF MethodResponse(items[n]) = Raised
    THEN [status |-> 500, body |-> One(ErrorResponse(items[n].id, -32603))]
    ELSE HttpBatchFrom(items, n + 1, Append(results, MethodResponse(items[n])))

(* lines 557-846 after json.loads *)
McpJsonrpcEndpoint(payload) ==
    IF ~ payload.batch THEN HttpSingle(payload.items[1])
    ELSE IF Len(payload.items) = 0
    THEN [status |-> 200, body |-> One(ErrorResponse("null", -32600))]
    ELSE HttpBatchFrom(payload.items, 1, << >>)

(* lines 955-1109 *)
ProcessSingleJsonrpcMessage(item) ==
    IF item.kind = "scalar" \/ item.jsonrpc # "2.0" THEN ErrorResponse(item.id, -32600)
    ELSE MethodResponse(item)

(* lines 933-952; an exception of an item leaves the function *)
ProcessJsonrpcMessage(payload) ==
    IF ~ payload.batch THEN One(ProcessSingleJsonrpcMessage(payload.items[1]))
    ELSE IF Len(payload.items) = 0 THEN One(ErrorResponse("null", -32600))
    ELSE IF \E n \in 1 .. Len(payload.items) : ProcessSingleJsonrpcMessage(payload.items[n]) = Raised
    THEN One(Raised)
    ELSE [batch |-> TRUE,
          responses |-> [n \in 1 .. Len(payload.items) |-> ProcessSingleJsonrpcMessage(payload.items[n])]]

(* lines 896-921: the message sent back for one received message; the handler  *)
(* of Exception takes the id from the message when the message is an object    *)
McpWebsocketEndpoint(payload) ==
    IF ProcessJsonrpcMessage(payload) = One(Raised)
    THEN One(ErrorResponse(IF ~ payload.batch /\ payload.items[1].kind = "dict"
                           THEN payload.items[1].id ELSE "null", -32603))
    ELSE ProcessJsonrpcMessage(payload)

(* the payload is posted to /mcp *)
PostMcp ==
    /\ ~ rpc.posted
    /\ rpc' = [rpc EXCEPT !.posted = TRUE, !.http = McpJsonrpcEndpoint(rpc.payload)]
    /\ UNCHANGED << parserVars, mw, proxy >>

(* the payload is sent over /mcp/ws *)
WsMessage ==
    /\ ~ rpc.sent
    /\ rpc' = [rpc EXCEPT !.sent = TRUE, !.ws = McpWebsocketEndpoint(rpc.payload)]
    /\ UNCHANGED << parserVars, mw, proxy >>

NextJsonRpc ==
    \/ PostMcp
    \/ WsMessage

InitJsonRpc ==
    /\ ParserUnused
    /\ mw = NoMw
    /\ proxy = NoProxy
    /\ rpc \in { [NoRpc EXCEPT !.payload = p] : p \in Payloads }

SpecJsonRpc == InitJsonRpc /\ [][NextJsonRpc]_vars

-----------------------------------------------------------------------------
(* local_mcp_server.py: LocalMCPServer.run, the loop over the lines of stdin.  *)
(* A line holds a JSON object, a JSON array, a JSON scalar or no JSON at all;  *)
(* for an object the call of the remote server succeeds or raises.             *)

StdinLines ==
    { [json |-> "object", upstream |-> "ok"], [json |-> "object", upstream |-> "raises"],
      [json |-> "array", upstream |-> "ok"], [json |-> "scalar", upstream |-> "ok"],
      [json |-> "malformed", upstream |-> "ok"] }

(* lines 53-55: readline; an empty string is the end of the input *)
ProxyReadLine ==
    /\ proxy.pc = "read"
    /\ proxy' = IF proxy.read = Len(proxy.stdin) THEN [proxy EXCEPT !.pc = "ended"]
                ELSE [proxy EXCEPT !.pc = "loads", !.read = @ + 1]
    /\ UNCHANGED << parserVars, mw, rpc >>

(* lines 57-82 for the line read: json.loads raises JSONDecodeError, answered  *)
(* by a Parse error line; request.get of line 58 raises AttributeError for a   *)
(* value that is not an object, and the handler of lines 80-82 leaves the      *)
(* loop; handle_request answers an object with the remote response or, the     *)
(* call failing, with an error of its own (lines 35-44)                        *)
ProxyAnswer ==
    /\ proxy.pc = "loads"
    /\ LET line == proxy.stdin[proxy.read] IN
       proxy' = CASE line.json = "malformed" ->
                       [proxy EXCEPT !.pc = "read", !.written = Append(@, "parse_error")]
                  [] line.json = "object" ->
                       [proxy EXCEPT !.pc = "read",
                                     !.written = Append(@, IF line.upstream = "ok" THEN "response"
                                                           ELSE "internal_error")]
                  [] OTHER -> [proxy EXCEPT !.pc = "ended"]
    /\ UNCHANGED << parserVars, mw, rpc >>

NextProxy ==
    \/ ProxyReadLine
    \/ ProxyAnswer

InitProxy ==
    /\ ParserUnused
    /\ mw = NoMw
    /\ rpc = NoRpc
    /\ proxy \in { [NoProxy EXCEPT !.pc = "read", !.stdin = q] : q \in SeqsUpTo(StdinLines, MaxStdin) }

SpecProxy == InitProxy /\ [][NextProxy]_vars

(* The same instance parsing the same archive MaxRuns times in a row *)
TwiceArchives == { ArchiveOf(pat) : pat \in FullPatterns \cup EndToEndPatterns }

InitTwice ==
    /\ InitInstance
    /\ calls_left = MaxRuns
    /\ archive \in TwiceArchives
    /\ disk = {archive}
    /\ max_files_per_type \in {NoneInt, MaxQuota}
    /\ max_total_files \in {NoneInt, MaxQuota}

SpecTwice == InitTwice /\ [][Next]_vars

(* parse_file is sequential code: once called, its next step is taken *)
ParseSteps ==
    \/ Validate
    \/ Probe
    \/ List7z
    \/ ListUnzip
    \/ ClassifyEntry
    \/ BeginExtraction
    \/ StartRound
    \/ ExtractNext
    \/ ExtractReturn
    \/ EndRound
    \/ Finish

(* two buckets, both larger than a batch *)
TwoBucketPattern ==
    Repeat(<< M("global_methods", "GLOBAL_FUNCTION") >>, MaxBlock)
    \o Repeat(<< M("other_objects", "OBJECT_FUNCTION") >>, MaxBlock)

(* a bucket larger than a batch, a conversion that yields no record, an .html *)
(* file of no bucket and a directory                                          *)
MixedPattern ==
    Repeat(<< M("global_methods", "GLOBAL_FUNCTION") >>, QuotaBatch + 1)
    \o << M("other_objects", "NoRecord"), M("misc", "OBJECT"), M("dir", None) >>

(* quotas unset, zero, below the batch and above the largest archive *)
RoundQuotas == { NoneInt, 0, MaxQuota, 2 * MaxBlock + 1 }

RoundMembers == { M("global_methods", "GLOBAL_FUNCTION"), M("other_objects", "NoRecord"),
                  M("object_events", "ExtractTimeout"), M("global_events", "ParserRaises") }

RoundPatterns ==
    BlockPatterns
    \cup { << m >> : m \in RoundMembers } \cup { << >>, OneOfEachKind, TwoBucketPattern, MixedPattern }

InitRounds ==
    /\ max_files_per_type \in RoundQuotas
    /\ max_total_files \in RoundQuotas
    /\ InitCaller
    /\ calls_left = 1
    /\ archive \in { ArchiveOf(pat) : pat \in RoundPatterns }
    /\ disk = {archive}

(* one parse_file call whose steps are not postponed for ever *)
SpecRounds == InitRounds /\ [][Next]_vars /\ WF_vars(ParseSteps)

(* The archive at the path is replaced between the calls: archives that differ *)
(* in what the extraction of their other_objects member yields                 *)
SwapBodies == { "OBJECT_FUNCTION", "NoRecord", "ExtractTimeout", "ExtractNonZero" }

SwapPatterns ==
    { << M("other_objects", b) >> : b \in SwapBodies }
    \cup { << M("global_methods", "GLOBAL_FUNCTION"), M("other_objects", b) >> : b \in SwapBodies }

SwapArchives == { ArchiveOf(pat) : pat \in SwapPatterns }

InitSwap ==
    /\ InitInstance
    /\ calls_left = MaxRuns
    /\ disk = SwapArchives
    /\ archive \in disk
    /\ max_files_per_type = NoneInt
    /\ max_total_files = NoneInt

SpecSwap == InitSwap /\ [][Next]_vars

(* The same instance parsing archives at two paths, its user reading a member *)
(* after each call                                                            *)
CallParseFileAt ==
    /\ BeginParseAmong(RetainFiles)
    /\ UNCHANGED << zip_command, archive_path, serverVars, listingVars, mcpVars >>

RetainPatterns ==
    { << M("global_methods", "GLOBAL_FUNCTION") >>,
      << M("other_objects", "OBJECT_FUNCTION"), M("dir", None) >> }

NextRetain ==
    \/ CallParseFileAt
    \/ Validate
    \/ Probe
    \/ List7z
    \/ ListUnzip
    \/ Tick
    \/ ClassifyEntry
    \/ BeginExtraction
    \/ StartRound
    \/ ExtractNext
    \/ ExtractReturn
    \/ EndRound
    \/ Finish
    \/ CallExtractFileContent
    \/ ExtractFileContentReturn

InitRetain ==
    /\ InitInstance
    /\ calls_left = MaxRuns
    /\ disk = { ArchiveOf(pat) : pat \in RetainPatterns }
    /\ archive \in disk
    /\ max_files_per_type = NoneInt
    /\ max_total_files = NoneInt

SpecRetain == InitRetain /\ [][NextRetain]_vars

(* One-entry archives over the paths the classification rules tell apart, with *)
(* every choice of "/" or "\" at every separator, as a file and as a directory *)
SegmentLists ==
    { << "objects", "Global context", "methods", "catalog1" >>,
      << "objects", "Global context", "events" >>,
      << "objects", "Global context", "properties" >>,
      << "objects", "Array", "ctors" >>,
      << "objects", "Array", "ctor" >>,
      << "objects", "Array", "events" >>,
      << "objects", "Array", "methods" >>,
      << "objects", "Global context", "methods", "ctors" >>,
      << "objects", "Array", "ctors", "events" >>,
      << "objects", "Array", "events", "ctor" >>,
      << "help" >> }

FileNames == { << "StrLen", ".html" >>, << "ctor1", ".html" >>, << "OnChange", ".html" >>,
               << "__categories__" >>, << "t", ".st" >> }

JoinPath(segs, seps, name) ==
    [i \in 1 .. 2 * Len(segs) |-> IF i % 2 = 1 THEN segs[(i + 1) \div 2] ELSE seps[i \div 2]] \o name

PathUniverse ==
    UNION { { JoinPath(segs, seps, name) :
                 seps \in [1 .. Len(segs) -> { Slash, Backslash }], name \in FileNames } :
            segs \in SegmentLists }

PathArchives ==
    { << [path |-> p, is_dir |-> d,
          body |-> IF d \/ ~ EndsWith(p, ".html") THEN None ELSE "OBJECT"] >> :
         p \in PathUniverse, d \in BOOLEAN }

InitPaths ==
    /\ InitInstance
    /\ calls_left = 1
    /\ archive \in PathArchives
    /\ disk = {archive}
    /\ max_files_per_type = NoneInt
    /\ max_total_files = NoneInt

SpecPaths == InitPaths /\ [][Next]_vars

(* the last call on the instance was parse_file and it is over *)
Done == pc = "idle" /\ returned # "pending" /\ efc_result = "nocall"
Returned == Done /\ returned = "result"
Analyzed == Returned /\ stats.assigned

-----------------------------------------------------------------------------
(* Properties *)

BothUnset == max_files_per_type = NoneInt /\ max_total_files = NoneInt

Bucketed == UNION { { buckets[b][j] : j \in 1 .. Len(buckets[b]) } : b \in 1 .. NBuckets }

Attempted == { attempted[j] : j \in 1 .. Len(attempted) }

BucketSum == SumSeq([b \in 1 .. NBuckets |-> Len(buckets[b])])

DocsOfKind(k) == Cardinality({ j \in 1 .. Len(documentation) : documentation[j].kind = k })

MembersOfKind(k) == Cardinality({ j \in 1 .. Len(archive) : archive[j].body = k })

FileValid == file.ext \in SupportedExtensions /\ file.size_kb >= MinFileSizeKB /\ file.size_kb <= MaxFileSizeKB

(* C1: with a positive max_total_files = N, the result that parse_file returns *)
(* never holds more than N documents, whatever max_files_per_type is.          *)
C1_TotalCap ==
    (Returned /\ Truthy(max_total_files)) => Len(documentation) <= max_total_files

(* C2: with max_files_per_type = q and at least q members of every kind in the *)
(* archive, after parse_file returns no kind has more than q documents, in the *)
(* result and in stats.found_types.                                            *)
C2_PerKindQuota ==
    (Analyzed /\ Truthy(max_files_per_type)
       /\ \A k \in Kinds : MembersOfKind(k) >= max_files_per_type)
    => \A k \in Kinds : /\ DocsOfKind(k) <= max_files_per_type
                        /\ stats.found_types[k] <= max_files_per_type

(* C3: with exactly one quota set to a positive value and the other unset, and *)
(* a non-empty bucket, the extraction loop runs: when parse_file returns at    *)
(* least one entry has been materialized.                                      *)
C3_UnsetQuotaNoLimit ==
    (Analyzed /\ BucketSum > 0
       /\ \/ Truthy(max_files_per_type) /\ max_total_files = NoneInt
          \/ Truthy(max_total_files) /\ max_files_per_type = NoneInt)
    => stats.processed_html >= 1

(* C4: with both quotas unset, every bucketed entry has its extraction         *)
(* attempted before parse_file returns and stats.processed_html is the sum of  *)
(* the six bucket sizes.                                                       *)
C4_AllProcessed ==
    (Returned /\ BothUnset /\ entries # << >>)
    => /\ stats.assigned
       /\ stats.processed_html = BucketSum
       /\ Attempted = Bucketed
       /\ Len(attempted) = BucketSum

C4_Witness ==
    /\ Analyzed /\ BothUnset
    /\ \E b \in 1 .. NBuckets : Len(buckets[b]) > MaxBatch
    /\ stats.processed_html = BucketSum
    /\ rounds >= 2

(* C5: once the elapsed time is beyond the 30-unit ceiling, the extraction     *)
(* loop starts no further round: no entry is materialized in a round that      *)
(* follows the round in which the ceiling was crossed.                         *)
C5_BudgetBoundsExtraction ==
    (rounds >= 2 /\ round_elapsed > TimeoutSeconds) => processed_html = initial_count

(* C6: a budget break happens at a tenth entry, stops the classification,      *)
(* adds nothing to result.errors, and parse_file still returns a result whose  *)
(* documents come from the entries bucketed before the break.                  *)
C6_TruncationNotError ==
    (Done /\ truncated)
    => /\ returned = "result"
       /\ errors = << >>
       /\ stats.assigned
       /\ processed_entries % CheckEvery = 0
       /\ classified = 1 .. (processed_entries - 1)
       /\ Bucketed \subseteq classified
       /\ \A j \in 1 .. Len(documentation) : documentation[j].src \in Bucketed

C6_Witness ==
    /\ Done /\ truncated /\ returned = "result"
    /\ Len(documentation) > 0
    /\ processed_entries < SafeTotal(Len(entries))

(* C7: the statistics of a run truncated by the budget differ from those of a  *)
(* complete run: the truncation can be told from result.stats alone.           *)
C7_TruncationVisible ==
    (Analyzed /\ prev.valid /\ prev.stats.assigned /\ prev.truncated # truncated)
    => prev.stats # stats

IsEndToEnd(a) ==
    /\ Len(a) = 3
    /\ \E d, h, t \in 1 .. 3 :
          /\ {d, h, t} = 1 .. 3
          /\ a[d].is_dir
          /\ ~ a[h].is_dir /\ EndsWith(a[h].path, ".html")
          /\ Contains(a[h].path, << "objects", Slash, "Global context", Slash, "methods" >>)
          /\ a[h].body = "GLOBAL_FUNCTION"
          /\ ~ a[t].is_dir /\ EndsWith(a[t].path, ".st")

(* C9: a listing of one directory, one global-methods HTML file that converts  *)
(* to a GLOBAL_FUNCTION record and one .st file, with no quotas, gives exactly *)
(* one document and html_files = 1, processed_html = 1, st_files = 1.          *)
C9_EndToEnd ==
    (Returned /\ BothUnset /\ entries # << >> /\ IsEndToEnd(archive))
    => /\ Len(documentation) = 1
       /\ documentation[1].kind = "GLOBAL_FUNCTION"
       /\ stats.html_files = 1
       /\ stats.processed_html = 1
       /\ stats.st_files = 1

C9_Witness ==
    /\ Analyzed /\ BothUnset /\ IsEndToEnd(archive)
    /\ Len(documentation) = 1

(* C10: for a file that passes validation parse_file never raises: whatever    *)
(* fails in the probe, the listing, an extraction or a conversion, the call    *)
(* returns a result object.                                                    *)
C10_NeverRaises ==
    /\ returned # "raised"
    /\ (Done /\ FileValid) => returned = "result"

C10_Witness ==
    /\ Analyzed
    /\ \E i \in Attempted : BodyOf(archive, entries[i].path) = "ParserRaises"
    /\ \E i \in Attempted : BodyOf(archive, entries[i].path) \in { "ExtractTimeout", "ExtractIOError" }

(* the slots of bucket b that round r (from 0) of the extraction loop offers *)
RoundSlice(b, r) ==
    SubSeq(buckets[b], r * batch_size + 1, Min((r + 1) * batch_size, Len(buckets[b])))

RECURSIVE RoundOrder(_, _)
RoundOrder(r, b) == IF b > NBuckets THEN << >> ELSE RoundSlice(b, r) \o RoundOrder(r, b + 1)

(* the bucketed entries in the order of the rounds: a function of the buckets only *)
RECURSIVE BucketOrder(_)
BucketOrder(r) ==
    IF batch_size = 0 \/ r * batch_size >= MaxBucketLen(buckets) THEN << >>
    ELSE RoundOrder(r, 1) \o BucketOrder(r + 1)

(* the documents of the attempted entries whose extraction and conversion succeed *)
RECURSIVE DocsFrom(_)
DocsFrom(att) ==
    IF att = << >> THEN << >>
    ELSE LET body == BodyOf(archive, entries[Head(att)].path)
         IN  (IF body \in Kinds THEN << [kind |-> body, src |-> Head(att)] >> ELSE << >>)
             \o DocsFrom(Tail(att))

(* C11: with no quotas, the entries whose extraction is attempted, and their   *)
(* order, depend on the buckets only, not on which extractions or conversions  *)
(* fail; the result holds a document for every attempted entry whose           *)
(* extraction and conversion both succeed.                                     *)
C11_FailureIsolation ==
    (Returned /\ BothUnset /\ entries # << >>)
    => /\ attempted = BucketOrder(0)
       /\ documentation = DocsFrom(attempted)

C11_Witness ==
    /\ Analyzed /\ BothUnset
    /\ \E j, k \in 1 .. Len(attempted) :
          /\ j < k
          /\ BodyOf(archive, entries[attempted[j]].path) \in ExtractFailures \cup ConvertFailures
          /\ BodyOf(archive, entries[attempted[k]].path) \in Kinds
          /\ \E d \in 1 .. Len(documentation) : documentation[d].src = attempted[k]

(* C12: the failed single-file extractions of a run are counted in its result: *)
(* a run with failed extractions differs, in result.stats or result.errors,    *)
(* from a run with none.                                                       *)
C12_FailuresCounted ==
    (Analyzed /\ prev.valid /\ prev.stats.assigned /\ prev.failed = 0 /\ FailedExtractions > 0)
    => (stats # prev.stats \/ errors # prev.errors)

(* C13: when no tool gives a non-empty listing, parse_file returns a result    *)
(* with no document and at least one error, and the run neither classifies     *)
(* nor extracts anything.                                                      *)
C13_ArchiveUnavailable ==
    (Done /\ FileValid /\ entries = << >>)
    => /\ returned = "result"
       /\ documentation = << >>
       /\ Len(errors) >= 1
       /\ effects.extract = 0 /\ effects.tempdir = 0
       /\ attempted = << >>
       /\ classified = {} /\ processed_entries = 0
       /\ html_files + st_files + category_files = 0
       /\ ~ stats.assigned

C13_Witness ==
    /\ Done /\ FileValid
    /\ archive = << >> /\ entries = << >>
    /\ effects.list7z = 1 /\ effects.unzip = 0 /\ zip_command # None
    /\ Len(errors) = 1

(* C14: a file with an unsupported extension, above the maximum size or below  *)
(* 1 MiB is rejected by parse_file returning None before any subprocess is     *)
(* spawned: no probe, no listing and no extraction happens in that run.        *)
C14_ValidationBoundary ==
    /\ (pc \notin { "idle", "validate", "efc" }) => FileValid
    /\ (Done /\ ~ FileValid)
       => /\ returned = "None"
          /\ effects = NoEffects
          /\ scratch = 0
          /\ entries = << >>

C14_Witness ==
    /\ Done /\ returned = "None"
    /\ file.ext \in SupportedExtensions /\ file.size_kb = 500
    /\ effects = NoEffects

(* C15: whenever a run ends with the listing declared unobtainable, unzip -l   *)
(* has been invoked earlier in that run.                                       *)
C15_FallbackBeforeFailure ==
    (Done /\ FileValid /\ entries = << >> /\ errors # << >>) => effects.unzip >= 1

(* C16: the scratch directory of a single-file extraction exists only while    *)
(* that extraction runs: at most one exists at any time, and none exists       *)
(* outside _extract_single_file, in particular when parse_file returns.        *)
C16_ScratchCleanup ==
    /\ scratch \in { 0, 1 }
    /\ scratch = 1 => pc \in { "extract", "efc" }

C16_Witness ==
    /\ Analyzed /\ scratch = 0
    /\ effects.tempdir >= 2
    /\ \E j \in 1 .. Len(attempted) : BodyOf(archive, entries[attempted[j]].path) = "ExtractTimeout"
    /\ \E j \in 1 .. Len(attempted) : BodyOf(archive, entries[attempted[j]].path) = "ExtractIOError"

(* C17: extract_file_content on an instance that retains no tool or no archive *)
(* path returns None, spawns no subprocess and creates no scratch directory.   *)
C17_UninitializedExtract ==
    (pc = "idle" /\ efc_result # "nocall" /\ (zip_command = None \/ archive_path = None))
    => /\ efc_result = "None"
       /\ effects = NoEffects
       /\ scratch = 0

C17_Witness ==
    /\ pc = "idle" /\ efc_result = "None"
    /\ zip_command = None /\ archive_path = None
    /\ returned = "result" /\ errors # << >>
    /\ effects = NoEffects

(* the ordered rules for .html entries, matched against the normalized path *)
RuleMatches(k, path) ==
    CASE k = 1 -> Contains(path, << "objects", Slash, "Global context", Slash, "methods" >>)
      [] k = 2 -> Contains(path, << "objects", Slash, "Global context", Slash, "events" >>)
      [] k = 3 -> Contains(path, << "objects", Slash, "Global context" >>)
      [] k = 4 -> Contains(path, << Slash, "ctors", Slash >>) \/ Contains(path, << Slash, "ctor", Slash >>)
      [] k = 5 -> Contains(path, << Slash, "events", Slash >>) /\ ~ Contains(path, << "Global context" >>)
      [] k = 6 -> Contains(path, << "objects", Slash >>)

(* the buckets (at most one) of the first rule that matches *)
FirstMatch(path) ==
    { k \in 1 .. NBuckets : RuleMatches(k, path) /\ \A j \in 1 .. (k - 1) : ~ RuleMatches(j, path) }

BucketsHolding(i) == { b \in 1 .. NBuckets : \E j \in 1 .. Len(buckets[b]) : buckets[b][j] = i }

IsHtmlFile(e) == ~ e.is_dir /\ ~ IsCategoriesFile(e.path) /\ EndsWith(e.path, ".html")

ExampleDir(segs) == JoinPath(segs, [i \in 1 .. Len(segs) |-> Slash], << >>)

(* C18: every .html file entry lands in the bucket of the first rule that      *)
(* matches its normalized path and in no other; the three example paths go to  *)
(* global_methods, object_constructors and object_events.                      *)
C18_FirstMatchWins ==
    /\ \A i \in classified : IsHtmlFile(entries[i])
          => BucketsHolding(i) = FirstMatch(Normalize(entries[i].path))
    /\ BucketOf(ExampleDir(<< "objects", "Global context", "methods", "catalog1" >>)
                  \o << "StrLen", ".html" >>) = "global_methods"
    /\ BucketOf(ExampleDir(<< "objects", "Array", "ctors" >>) \o << "ctor1", ".html" >>)
          = "object_constructors"
    /\ BucketOf(ExampleDir(<< "objects", "Array", "events" >>) \o << "OnChange", ".html" >>)
          = "object_events"

(* C19: a directory entry is never counted as an HTML, template or category    *)
(* file, never bucketed, never extracted, and no document comes from it,       *)
(* whatever its path.                                                          *)
C19_DirectoriesSkipped ==
    /\ \A i \in 1 .. Len(entries) : entries[i].is_dir
          => /\ i \notin Bucketed
             /\ i \notin Attempted
             /\ \A d \in 1 .. Len(documentation) : documentation[d].src # i
    /\ html_files + st_files + category_files
          <= Cardinality({ i \in classified : ~ entries[i].is_dir })

C19_Witness ==
    /\ Analyzed
    /\ \E i \in classified : entries[i].is_dir /\ EndsWith(entries[i].path, ".html")
    /\ html_files = 0 /\ Bucketed = {}

(* C20: replacing any of the "/" of a path by "\" leaves its bucket unchanged: *)
(* an .html file entry is in the bucket of its "/"-normalized path.            *)
C20_SeparatorInvariant ==
    \A i \in classified : IsHtmlFile(entries[i])
       => BucketsHolding(i) = { b \in 1 .. NBuckets :
                                   BucketNames[b] = BucketOf(Normalize(entries[i].path)) }

PrevDocsOfKind(k) ==
    Cardinality({ j \in 1 .. Len(prev.documentation) : prev.documentation[j].kind = k })

(* both the previous and the current call listed the archive and analysed it *)
TwoRuns == Analyzed /\ prev.valid /\ prev.returned = "result" /\ prev.stats.assigned

(* C21: two runs of parse_file on the same unmodified archive with the same    *)
(* quotas, both with the listing obtained, yield the same number of documents  *)
(* of every kind.                                                              *)
C21_Idempotent ==
    TwoRuns => \A k \in Kinds : DocsOfKind(k) = PrevDocsOfKind(k)

(* C21, amended: the same, for two runs neither of which is cut short by the   *)
(* wall-clock budget.                                                          *)
C21_IdempotentUntruncated ==
    (TwoRuns /\ ~ truncated /\ ~ prev.truncated)
    => \A k \in Kinds : DocsOfKind(k) = PrevDocsOfKind(k)

C21_Witness ==
    /\ TwoRuns /\ ~ truncated /\ ~ prev.truncated
    /\ Len(documentation) >= 2
    /\ Truthy(max_files_per_type)
    /\ \A k \in Kinds : DocsOfKind(k) = PrevDocsOfKind(k)

(* C22: after parse_file, for every classified category-metadata file          *)
(* "__categories__" under parent segment S (the files of the model hold text   *)
(* that decodes), result.categories has an entry keyed by S.                   *)
C22_CategoriesRegistered ==
    Returned => \A i \in classified :
                   (~ entries[i].is_dir /\ IsCategoriesFile(entries[i].path))
                   => ParentSegment(entries[i].path) \in categories

(* C23: for an archive file that passes validation, with a working archive     *)
(* tool and an .html entry whose extraction and conversion succeed,            *)
(* parse_single_file_from_archive returns a result with exactly one document   *)
(* and no error entry.                                                         *)
C23_SingleFileVariant ==
    (single.returned # "nocall" /\ single.favourable)
    => /\ single.returned = "result"
       /\ single.documents = 1
       /\ single.errors = 0

(* C24: index_hbk_file calls reindex_all only with a parse result that is not  *)
(* None and holds at least one document; in every other case it returns False  *)
(* without calling reindex_all; it never raises.                               *)
C24_PublishGating ==
    \A t \in Tasks :
       /\ run[t].called => run[t].docs >= 1
       /\ (run[t].pos \in { "await", "returned" } /\ run[t].result # "none" /\ run[t].docs < 1)
             => (~ run[t].called /\ run[t].result = "False")
       /\ run[t].result # "raised"

C24_Witness ==
    /\ run["startup"].pos = "returned" /\ run["startup"].docs = 0
    /\ ~ run["startup"].called /\ run["startup"].result = "False"
    /\ run["rebuild"].pos = "returned" /\ run["rebuild"].called
    /\ run["rebuild"].result = "True"

InProgress(t) == run[t].pos \in { "parse", "await" }

(* C25: at most one index_hbk_file run is in progress at any time: a run       *)
(* started by the startup task or by POST /index/rebuild begins only after     *)
(* every earlier run has returned.                                             *)
C25_OnePipeline ==
    \A t, u \in Tasks : (InProgress(t) /\ InProgress(u)) => t = u

(* C30: while parse_file runs inside the startup task, the event loop can      *)
(* still run the handler of a received HTTP request to its end.                *)
C30_NonBlockingParse ==
    (run["startup"].pos = "parse" /\ pc # "idle" /\ served < arrived)
    => ENABLED HandleRequest

(* ceil(a / b); no slice is needed when there is nothing to slice *)
CeilDiv(a, b) == IF b = 0 THEN 0 ELSE (a + b - 1) \div b

InRoundLoop == pc \in { "while", "round", "extract", "break" }

RoundsBounded ==
    /\ (pc = "while" /\ rounds >= 1) => processed_html > initial_count
    /\ InRoundLoop => rounds <= CeilDiv(MaxBucketLen(buckets), batch_size) + 1

(* C26: the extraction round loop terminates for every quota setting: every    *)
(* round strictly increases processed_html or is the last one, the number of   *)
(* rounds is at most ceil(largest bucket size / batch_size) + 1, and a call    *)
(* that entered the loop leaves it.                                            *)
C26_RoundsTerminate == [] RoundsBounded /\ (InRoundLoop ~> pc = "idle")

C26_Witness ==
    /\ Analyzed
    /\ rounds = 3
    /\ Truthy(max_files_per_type)
    /\ batch_size = QuotaBatch
    /\ rounds = CeilDiv(MaxBucketLen(buckets), batch_size) + 1
    /\ processed_html = MaxBlock

(* where the classification put entry i: its bucket, its position in the      *)
(* bucket (from 0), and the slice of batch_size positions that holds it        *)
BucketIndex(i) == CHOOSE b \in 1 .. NBuckets : \E p \in 1 .. Len(buckets[b]) : buckets[b][p] = i
PositionOf(i) == (CHOOSE p \in 1 .. Len(buckets[BucketIndex(i)]) : buckets[BucketIndex(i)][p] = i) - 1
SliceOf(i) == PositionOf(i) \div batch_size

(* entry i is offered before entry j in the order slice, bucket, position *)
OfferedBefore(i, j) ==
    \/ SliceOf(i) < SliceOf(j)
    \/ SliceOf(i) = SliceOf(j) /\ BucketIndex(i) < BucketIndex(j)
    \/ SliceOf(i) = SliceOf(j) /\ BucketIndex(i) = BucketIndex(j) /\ PositionOf(i) < PositionOf(j)

(* C27: in every round the buckets are visited in their fixed order and each   *)
(* is offered at most batch_size entries, its slice of that round; no bucket   *)
(* is offered its (k+1)-th slice before every other bucket was offered its     *)
(* k-th.                                                                       *)
C27_RoundRobin ==
    /\ \A x, y \in 1 .. Len(attempted) : x < y => OfferedBefore(attempted[x], attempted[y])
    /\ pc = "extract" => SliceOf(attempted[Len(attempted)]) = rounds - 1
    /\ \A b \in 1 .. NBuckets :
          Cardinality({ x \in 1 .. Len(attempted) :
                           BucketIndex(attempted[x]) = b /\ SliceOf(attempted[x]) = rounds - 1 })
             <= batch_size

C27_Witness ==
    /\ Analyzed
    /\ rounds = 3
    /\ batch_size = QuotaBatch
    /\ \E x, y, z \in 1 .. Len(attempted) :
          /\ x < y /\ y < z
          /\ BucketIndex(attempted[x]) = 6 /\ SliceOf(attempted[x]) = 0
          /\ BucketIndex(attempted[y]) = 1 /\ SliceOf(attempted[y]) = 1
          /\ BucketIndex(attempted[z]) = 6 /\ SliceOf(attempted[z]) = 1

(* C28: the per-kind counts are recomputed, not accumulated: at the end of     *)
(* every round, and in stats.found_types when parse_file returns, the count of *)
(* a kind is the number of documents of that kind in the result.               *)
C28_CountsRecomputed ==
    /\ (pc \in { "while", "break" } /\ rounds >= 1)
          => \A k \in Kinds : target_types[k] = DocsOfKind(k)
    /\ Analyzed => \A k \in Kinds : stats.found_types[k] = DocsOfKind(k)

C28_Witness ==
    /\ Analyzed
    /\ rounds = 3
    /\ stats.found_types["GLOBAL_FUNCTION"] = MaxBlock
    /\ stats.found_types["OBJECT_FUNCTION"] = MaxBlock
    /\ Len(documentation) = 2 * MaxBlock

(* the lines of the first delimiter-bounded block: after the first delimiter  *)
(* line and before the next one                                               *)
DelimiterLines == { n \in 1 .. Len(stdout) : stdout[n] = "delim" }

TableRows ==
    { n \in 1 .. Len(stdout) :
         /\ n \notin DelimiterLines
         /\ Cardinality({ d \in DelimiterLines : d < n }) = 1 }

RowsOutsideTable == { j \in 1 .. Len(listed.rows) : listed.rows[j].line \notin TableRows }

(* C29: in both listing grammars only the rows between the first delimiter     *)
(* line and the next one produce entries; the lines before the table and every *)
(* line after the closing delimiter produce none.                              *)
C29_TableBounds == listed # NoListing => RowsOutsideTable = {}

(* the same for the fallback grammar alone *)
UnzipTableBounds == listed.grammar = "unzip" => RowsOutsideTable = {}

(* C37: within one parse_file run no bucketed entry has its extraction         *)
(* attempted more than once, under every quota setting, so the result never    *)
(* holds two documents made from the same entry.                               *)
C37_NoRepeatedAttempt ==
    /\ \A x, y \in 1 .. Len(attempted) : attempted[x] = attempted[y] => x = y
    /\ \A d, e \in 1 .. Len(documentation) : documentation[d].src = documentation[e].src => d = e

C37_Witness ==
    /\ Analyzed
    /\ rounds = 3
    /\ Truthy(max_files_per_type) /\ Truthy(max_total_files)
    /\ Len(attempted) = 2 * MaxBlock
    /\ Len(documentation) = 2 * MaxBlock

AttemptedIn(b) == { x \in 1 .. Len(attempted) : \E p \in 1 .. Len(buckets[b]) : buckets[b][p] = attempted[x] }

(* C38: for each bucket b, stats.categories_processed[b] at return is the      *)
(* number of entries of b whose extraction was attempted, and so is at most    *)
(* the number of entries of b.                                                 *)
C38_PositionsCountAttempts ==
    Analyzed => \A b \in 1 .. NBuckets :
                   /\ stats.categories_processed[b] = Cardinality(AttemptedIn(b))
                   /\ stats.categories_processed[b] <= Len(buckets[b])

BucketTotal == SumSeq([b \in 1 .. NBuckets |-> Len(buckets[b])])

C36_RetainedBelongsToLastCall ==
    (pc = "efc" /\ returned # "pending") => archive_path = file.path


(* C34: the rate-limit middleware passes a request downstream at most once,     *)
(* whatever the rate limiter, the downstream handler and the metrics collector *)
(* raise; a request refused with RateLimitExceeded is never passed downstream   *)
(* and is answered 429.                                                         *)
C34_PassedAtMostOnce ==
    /\ mw.passed <= 1
    /\ (mw.pc = "done" /\ mw.limiter = "RateLimitExceeded" /\ mw.metrics = "ok")
          => (mw.passed = 0 /\ mw.answer = "429")


(* C31: the WebSocket message processor gives the answer of the HTTP endpoint: *)
(* for every decoded payload (object, batch, scalar) and the same outcomes of  *)
(* the tool handler, the body of the POST /mcp response equals the message     *)
(* sent back over /mcp/ws.                                                     *)
C31_WsEqualsHttp ==
    (rpc.posted /\ rpc.sent) => rpc.http.body = rpc.ws

(* C32: a non-empty batch of n items is answered by an array of exactly n      *)
(* responses, the i-th with the id of the i-th item, also when items are       *)
(* invalid or a tools/call fails; an empty batch is answered by one Invalid    *)
(* Request (-32600) object.                                                    *)
C32_BatchAnswersEveryItem ==
    (rpc.posted /\ rpc.payload.batch) =>
        IF Len(rpc.payload.items) = 0
        THEN rpc.http.body = One(ErrorResponse("null", -32600))
        ELSE /\ rpc.http.body.batch
             /\ Len(rpc.http.body.responses) = Len(rpc.payload.items)
             /\ \A i \in 1 .. Len(rpc.payload.items) :
                   rpc.http.body.responses[i].id = rpc.payload.items[i].id

(* a single tools/call request whose handler fails *)
FailedToolCall ==
    /\ ~ rpc.payload.batch
    /\ rpc.payload.items[1].kind = "dict"
    /\ rpc.payload.items[1].jsonrpc = "2.0"
    /\ rpc.payload.items[1].method = "tools/call"
    /\ rpc.payload.items[1].params = "dict"
    /\ rpc.payload.items[1].outcome # "ok"

SignalsFailure(r) == r.kind = "error" \/ r.isError

(* C33: a tools/call whose handler fails (Elasticsearch not connected, unknown *)
(* tool, exception in the handler) is answered by a response that signals the  *)
(* failure: isError = true or a JSON-RPC error member.                         *)
C33_FailureSignalled ==
    FailedToolCall =>
        /\ rpc.posted => SignalsFailure(rpc.http.body.responses[1])
        /\ rpc.sent => SignalsFailure(rpc.ws.responses[1])


(* C35: the stdio proxy answers every line: whenever it is about to read, it    *)
(* has written exactly one response line for each line read so far, whatever   *)
(* JSON value or malformed text the lines held and whether or not the upstream *)
(* call failed; and the loop ends only at the end of the input.                *)
C35_EveryLineAnswered ==
    /\ proxy.pc = "read" => Len(proxy.written) = proxy.read
    /\ proxy.pc = "ended" => (proxy.read = Len(proxy.stdin) /\ Len(proxy.written) = proxy.read)

====
